---------------------------- MODULE Spec2Model ----------------------------
(***************************************************************************)
(* DemoScripter: the typing engine (src/src/typer_engine.py) and the       *)
(* hotkey-driven demo runner of the application (src/src/app.py).          *)
(*                                                                         *)
(* Threads: the UI thread (Tk main loop, runs the handlers and the         *)
(* `after` callbacks), the pynput listener thread (_on_global_key) and one *)
(* worker thread per TyperEngine.type_text call.  Every worker shares the  *)
(* engine's two fields, is_typing and the _stop event.                     *)
(***************************************************************************)
EXTENDS Integers, Sequences, FiniteSets

VARIABLES
    is_typing,          \* TyperEngine.is_typing
    stop_flag,          \* TyperEngine._stop (threading.Event): TRUE when set
    workers,            \* one record per type_text call: the closure and position of its thread
    caps_lock,          \* the keyboard's Caps Lock state read by _is_caps_lock_on
    caller_args,        \* the arguments the engine's caller passes to type_text
    fault_budget,       \* how many key injections and callbacks may raise in this behaviour
    last_call,          \* history: the last TyperEngine method that returned
    disciplined,        \* history: every type_text call so far was made while is_typing was false
    scripts,            \* DemoScripterApp.scripts
    selected_script,    \* DemoScripterApp.selected_script: index into scripts, 0 for None
    demo_running,       \* DemoScripterApp.demo_running
    demo_step_idx,      \* DemoScripterApp.demo_step_idx
    hotkey_key,         \* DemoScripterApp._hotkey_key
    listener,           \* DemoScripterApp._listener is not None
    listeners_running,  \* number of started, not stopped kb.Listener threads
    after_advance,      \* pending after(10, _type_next_step) callbacks, oldest first
    after_typed,        \* number of pending after(0, _on_step_typed) callbacks
    key_dropped,        \* history: the last trigger press of a running demo was observed while is_typing was true
    advance_skipped,    \* history: the last _type_next_step of the running demo found the index past the last step
    listener_calls,     \* history: the direct calls of _start_listener and _stop_listener, oldest first
    base_delay,         \* TyperEngine.base_delay, in microseconds
    speed_log,          \* history: the calls of set_speed and set_speed_value, oldest first
    disk,               \* the file at Storage.filepath
    loaded,             \* history: what the last Storage.load since the last save returned or raised
    saved,              \* history: the collection passed to the last Storage.save, if any
    humanize,           \* TyperEngine.humanize
    slept,              \* history: the last inter-keystroke delay a worker computed and slept
    advance_key,        \* history: the key whose press scheduled the newest advance
    advance_pc,         \* where the Tk main loop is inside _type_next_step, with the step it captured
    selected_step_idx,  \* DemoScripterApp.selected_step_idx, -1 for None
    clock,              \* the time datetime.now() returns, in ticks
    last_op,            \* history: the editor handler that ran last
    advance_log,        \* history: what the last _type_next_step found and did
    click               \* history: the last click on a step card and the advances since

engine_vars == <<is_typing, stop_flag, workers, caps_lock, caller_args, fault_budget, last_call, disciplined>>
app_vars == <<scripts, selected_script, demo_running, demo_step_idx, hotkey_key,
              listener, listeners_running, after_advance, after_typed, key_dropped, advance_skipped>>
\* What only the listener's, the speed setters' and the storage's own callers change
speed_vars == <<base_delay, speed_log>>
storage_vars == <<disk, loaded, saved>>
delay_vars == <<humanize, slept>>
key_vars == <<advance_key, advance_pc>>
editor_vars == <<selected_step_idx, clock, last_op>>
live_vars == <<advance_log, click>>
aux_vars == <<listener_calls, speed_vars, storage_vars, delay_vars, key_vars, editor_vars, live_vars>>

vars == <<is_typing, stop_flag, workers, caps_lock, caller_args, fault_budget, last_call, disciplined,
          scripts, selected_script, demo_running, demo_step_idx, hotkey_key,
          listener, listeners_running, after_advance, after_typed, key_dropped, advance_skipped,
          aux_vars>>

---------------------------------------------------------------------------
(* Bounds of the model *)

\* type_text calls in one behaviour
MaxSessions == 2

\* longest text typed
MaxLen == 2

\* steps of the demo script
MaxSteps == 2

\* pending after(10, _type_next_step) callbacks
MaxPending == 2

\* key injections and callbacks that raise in one behaviour of the engine
\* under an arbitrary caller, and in one behaviour of the application
MaxFaults == 1

MaxAppFaults == 0

\* direct calls of _start_listener and _stop_listener in one behaviour
MaxListenerCalls == 3

\* calls of set_speed and set_speed_value in one behaviour
MaxSpeedCalls == 2

\* scripts in a saved collection
MaxScripts == 2

---------------------------------------------------------------------------
(* Data *)

\* The characters of the texts typed: text n is the first n of these.
Sample == <<"H", "i", " ", "!", "x">>

Texts == { SubSeq(Sample, 1, n) : n \in 0..MaxLen }

\* delay_before in milliseconds; a negative value makes time.sleep raise ValueError
Delays == {-1, 0}

\* Synthetic key events as the focused window receives them
TypeEv(c) == <<"type", c>>
EnterPress == <<"press", "enter">>
EnterRelease == <<"release", "enter">>
CapsPress == <<"press", "caps_lock">>
CapsRelease == <<"release", "caps_lock">>

\* The arguments of one type_text call.  on_done is "count" for a caller that
\* only observes the call, "after" for the application's lambda.
Request(text, press_enter, delay_before, on_char, on_done) ==
    [text |-> text, press_enter |-> press_enter, delay_before |-> delay_before,
     on_char |-> on_char, on_done |-> on_done]

\* What the engine's caller may pass: every text with and without Enter, and
\* the longest text with an on_char callback or with an invalid delay.
EngineRequests ==
    { Request(t, e, 0, FALSE, "count") : t \in Texts, e \in BOOLEAN }
    \cup { Request(SubSeq(Sample, 1, MaxLen), TRUE, d, oc, "count") :
              d \in Delays, oc \in BOOLEAN }

\* The thread created by type_text: its closure, its position (pc, i) and
\* what it has injected so far (out).  History fields: stop_at (the number of
\* characters it had emitted when stop() first returned while it was still
\* inside the try block, -1 if that never happened), stop_len (the number of
\* events it had injected then), stop_before_on_char
\* (it had then emitted a character and not yet called on_char for it),
\* failed (what raised),
\* caps_seen, on_char_calls, done_calls.
NewWorker(req) ==
    [text |-> req.text, press_enter |-> req.press_enter,
     delay_before |-> req.delay_before, on_char |-> req.on_char,
     on_done |-> req.on_done,
     pc |-> "sleep0", i |-> 0, out |-> <<>>,
     stop_at |-> -1, stop_len |-> -1, stop_before_on_char |-> FALSE,
     failed |-> "none", caps_seen |-> "unread",
     on_char_calls |-> 0, done_calls |-> 0]

Sessions == 1..Len(workers)

Live(w) == workers[w].pc # "exited"

LiveWorkers == { w \in Sessions : Live(w) }

\* The worker is inside the try block: it has not reached the finally clause
InTry(w) == workers[w].pc \notin {"finally", "exited"}

\* An injection or a callback may raise while the behaviour's faults are not used up
Faults == Cardinality({ w \in Sessions : workers[w].failed \in {"caps", "char", "on_char", "enter"} })

Outcomes == IF Faults < fault_budget THEN BOOLEAN ELSE {TRUE}

\* How many injections of a press+release pair succeed before one raises
PairOutcomes == IF Faults < fault_budget THEN 0..2 ELSE {2}

\* The characters a worker has typed, in the order it typed them
Chars(out) == SelectSeq(out, LAMBDA e : e[1] = "type")

NChars(w) == Len(Chars(workers[w].out))

EnterPressed(out) == \E k \in 1..Len(out) : out[k] = EnterPress

---------------------------------------------------------------------------
(* TyperEngine *)

\* type_text, lines 72-73 and 115-116: on the calling path
type_text(req) ==
    /\ stop_flag' = FALSE
    /\ is_typing' = TRUE
    /\ workers' = Append(workers, NewWorker(req))
    /\ last_call' = "type_text"
    /\ disciplined' = (disciplined /\ ~is_typing)

\* Mutant: stop only sets the event and leaves is_typing to the worker
stop_LeavesIsTyping ==
    /\ stop_flag' = TRUE
    /\ UNCHANGED <<is_typing, workers, disciplined>>
    /\ last_call' = "stop"

\* stop, lines 118-121
stop ==
    /\ stop_flag' = TRUE
    /\ is_typing' = FALSE
    /\ workers' = [w \in Sessions |->
                     IF InTry(w) /\ workers[w].stop_at = -1
                     THEN [workers[w] EXCEPT !.stop_at = Len(Chars(workers[w].out)),
                                             !.stop_len = Len(workers[w].out),
                                             !.stop_before_on_char = (workers[w].pc = "on_char")]
                     ELSE workers[w]]
    /\ last_call' = "stop"
    /\ UNCHANGED disciplined

\* Mutant: the exception ends the thread without the finally clause
Raise_NoFinally(wk, what) == [wk EXCEPT !.pc = "exited", !.failed = what]

\* Mutant: the exception is swallowed and the loop goes on with the next character
Raise_Swallowed(wk, what) == [wk EXCEPT !.pc = "loop", !.i = @ + 1, !.failed = what]

\* An exception inside the try block: control goes to the finally clause
Raise(wk, what) == [wk EXCEPT !.pc = "finally", !.failed = what]

\* _worker line 78: time.sleep(delay_before)
WorkerSleep(w) ==
    /\ workers[w].pc = "sleep0"
    /\ workers' = [workers EXCEPT ![w] =
                     IF workers[w].delay_before < 0
                     THEN Raise(workers[w], "sleep")
                     ELSE [workers[w] EXCEPT !.pc = "caps"]]
    /\ UNCHANGED <<is_typing, stop_flag, caps_lock, last_call, disciplined>>

\* Mutant: the Caps Lock key is pressed and released whatever was detected
WorkerCaps_Always(w, detected, injected) ==
    /\ workers[w].pc = "caps"
    /\ injected = 2
    /\ workers' = [workers EXCEPT ![w] =
                     [@ EXCEPT !.pc = "loop",
                               !.caps_seen = IF detected THEN "on" ELSE "off",
                               !.out = @ \o <<CapsPress, CapsRelease>>]]
    /\ caps_lock' = ~caps_lock
    /\ UNCHANGED <<is_typing, stop_flag, last_call, disciplined>>

\* _is_caps_lock_on, lines 10-15: what it may return.  GetKeyState tells the
\* state of the key; where User32.dll cannot be loaded the call raises and
\* the function returns False whatever the state.
CapsDetections == IF caps_lock THEN BOOLEAN ELSE {FALSE}

\* _worker line 81: _disable_caps_lock(), lines 18-23.  detected = what
\* _is_caps_lock_on returned; injected = how many of the two injections
\* succeed before one raises; Caps Lock toggles when the key goes down.
WorkerCaps(w, detected, injected) ==
    /\ workers[w].pc = "caps"
    /\ IF ~detected
       THEN /\ injected = 2
            /\ workers' = [workers EXCEPT ![w] =
                             [@ EXCEPT !.pc = "loop", !.caps_seen = "off"]]
            /\ UNCHANGED caps_lock
       ELSE IF injected = 2
       THEN /\ workers' = [workers EXCEPT ![w] =
                             [@ EXCEPT !.pc = "loop", !.caps_seen = "on",
                                       !.out = @ \o <<CapsPress, CapsRelease>>]]
            /\ caps_lock' = FALSE
       ELSE /\ workers' = [workers EXCEPT ![w] =
                             Raise([@ EXCEPT !.caps_seen = "on",
                                             !.out = @ \o SubSeq(<<CapsPress>>, 1, injected)],
                                   "caps")]
            /\ caps_lock' = (caps_lock /\ injected = 0)
    /\ UNCHANGED <<is_typing, stop_flag, last_call, disciplined>>

\* _worker line 106: if press_enter and not self._stop.is_set()
EnterCheck(wk, stop_is_set) ==
    IF wk.press_enter /\ ~stop_is_set THEN "enter_press" ELSE "finally"

\* Mutant: the loop ends one character early
LoopHead_SkipsLast(wk, stop_is_set) ==
    IF wk.i >= Len(wk.text) - 1 THEN EnterCheck(wk, stop_is_set)
    ELSE IF stop_is_set THEN "enter_check"
    ELSE "type"

\* Mutant: at the end of the text the loop does not end
LoopHead_Spins(wk, stop_is_set) ==
    IF wk.i >= Len(wk.text) THEN "loop"
    ELSE IF stop_is_set THEN "enter_check"
    ELSE "type"

\* _worker lines 83-85: the for loop's head and the check of the stop event
\* (the sleep of lines 93-103 that precedes it has no effect on shared
\* state).  The loop ends when the text is exhausted, and line 106 follows;
\* on break, line 106 reads the event a second time, in a later step.
LoopHead(wk, stop_is_set) ==
    IF wk.i >= Len(wk.text) THEN EnterCheck(wk, stop_is_set)
    ELSE IF stop_is_set THEN "enter_check"
    ELSE "type"

WorkerLoop(w) ==
    /\ workers[w].pc = "loop"
    /\ workers' = [workers EXCEPT ![w].pc = LoopHead(workers[w], stop_flag)]
    /\ UNCHANGED <<is_typing, stop_flag, caps_lock, last_call, disciplined>>

\* Mutant: on_char is never called
TypeChar_NoCallback(wk) ==
    [wk EXCEPT !.out = Append(@, TypeEv(wk.text[wk.i + 1])), !.pc = "loop", !.i = @ + 1]

\* _worker line 88: self.controller.type(char)
TypeChar(wk) ==
    [wk EXCEPT !.out = Append(@, TypeEv(wk.text[wk.i + 1])),
               !.pc = IF wk.on_char THEN "on_char" ELSE "loop",
               !.i = IF wk.on_char THEN @ ELSE @ + 1]

WorkerType(w, ok) ==
    /\ workers[w].pc = "type"
    /\ workers' = [workers EXCEPT ![w] =
                     IF ok THEN TypeChar(workers[w]) ELSE Raise(workers[w], "char")]
    /\ UNCHANGED <<is_typing, stop_flag, caps_lock, last_call, disciplined>>

\* _worker lines 90-91: on_char(i, char); ok = the callback returns
WorkerOnChar(w, ok) ==
    /\ workers[w].pc = "on_char"
    /\ workers' = [workers EXCEPT ![w] =
                     IF ok
                     THEN [@ EXCEPT !.on_char_calls = @ + 1, !.i = @ + 1, !.pc = "loop"]
                     ELSE Raise([@ EXCEPT !.on_char_calls = @ + 1], "on_char")]
    /\ UNCHANGED <<is_typing, stop_flag, caps_lock, last_call, disciplined>>

\* _worker line 106 after a break of the loop
WorkerEnterCheck(w) ==
    /\ workers[w].pc = "enter_check"
    /\ workers' = [workers EXCEPT ![w].pc = EnterCheck(workers[w], stop_flag)]
    /\ UNCHANGED <<is_typing, stop_flag, caps_lock, last_call, disciplined>>

\* _worker lines 107-109: time.sleep(0.08); press(Key.enter); release(Key.enter).
\* injected = how many of the two injections succeed before one raises.
PressEnter(wk, injected) ==
    IF injected = 2
    THEN [wk EXCEPT !.out = @ \o <<EnterPress, EnterRelease>>, !.pc = "finally"]
    ELSE Raise([wk EXCEPT !.out = @ \o SubSeq(<<EnterPress>>, 1, injected)], "enter")

WorkerEnter(w, injected) ==
    /\ workers[w].pc = "enter_press"
    /\ workers' = [workers EXCEPT ![w] = PressEnter(workers[w], injected)]
    /\ UNCHANGED <<is_typing, stop_flag, caps_lock, last_call, disciplined>>

\* _worker lines 110-113: finally: self.is_typing = False; if on_done: on_done();
\* then the thread exits.  The application's on_done is
\* lambda: self.after(0, self._on_step_typed) (app.py line 1054).
WorkerFinally(w) ==
    /\ workers[w].pc = "finally"
    /\ is_typing' = FALSE
    /\ workers' = [workers EXCEPT ![w] =
                     [@ EXCEPT !.done_calls = @ + 1, !.pc = "exited"]]
    /\ after_typed' = IF workers[w].on_done = "after" THEN after_typed + 1 ELSE after_typed
    /\ UNCHANGED <<stop_flag, caps_lock, last_call, disciplined>>

\* One step of worker w, in the engine's variables and after_typed
WorkerStep(w) ==
    \/ WorkerSleep(w) /\ UNCHANGED after_typed
    \/ \E detected \in CapsDetections : \E injected \in PairOutcomes :
          WorkerCaps(w, detected, injected) /\ UNCHANGED after_typed
    \/ WorkerLoop(w) /\ UNCHANGED after_typed
    \/ \E ok \in Outcomes : WorkerType(w, ok) /\ UNCHANGED after_typed
    \/ \E ok \in Outcomes : WorkerOnChar(w, ok) /\ UNCHANGED after_typed
    \/ WorkerEnterCheck(w) /\ UNCHANGED after_typed
    \/ \E injected \in PairOutcomes : WorkerEnter(w, injected) /\ UNCHANGED after_typed
    \/ WorkerFinally(w)

app_rest == <<aux_vars, caller_args, fault_budget, scripts, selected_script, demo_running, demo_step_idx, hotkey_key,
              listener, listeners_running, after_advance, key_dropped, advance_skipped>>

Worker == \E w \in Sessions : WorkerStep(w) /\ UNCHANGED app_rest

---------------------------------------------------------------------------
(* Storage (src/src/storage.py) *)

\* What json.load returns and json.dump accepts: the values of JSON, each
\* tagged with its type
JNull == [t |-> "null"]
JBool(b) == [t |-> "bool", b |-> b]
JNum(n) == [t |-> "num", n |-> n]
\* float("nan"), which json.dump writes as NaN and json.load reads back
JNaN == [t |-> "nan"]
JStr(x) == [t |-> "str", s |-> x]
JList(items) == [t |-> "list", items |-> items]
JDict(d) == [t |-> "dict", d |-> d]

\* The file at Storage.filepath: missing, bytes that are not UTF-8, text that
\* is not JSON, or the text of a JSON value
Absent == [kind |-> "absent"]
NotUtf8 == [kind |-> "not_utf8"]
NotJson == [kind |-> "not_json"]
JsonFile(v) == [kind |-> "json", value |-> v]

\* What a call of load did
NotLoaded == [status |-> "none"]
Returned(c) == [status |-> "returned", scripts |-> c]
Raised(e) == [status |-> "raised", error |-> e]

\* for x in v: a list yields its items, a dict its keys and a str its
\* characters (keys and characters are strs, and the first of them already
\* ends the load, so one stands for all); other values are not iterable
Iterable(v) == v.t \in {"list", "dict", "str"}

IterItems(v) ==
    CASE v.t = "list" -> v.items
      [] v.t = "dict" -> IF DOMAIN v.d = {} THEN <<>>
                         ELSE << JStr(CHOOSE k \in DOMAIN v.d : TRUE) >>
      [] v.t = "str" -> IF v.s = "" THEN <<>> ELSE << JStr(v.s) >>

\* d.get(key, default)
Get(d, key, default) == IF key \in DOMAIN d THEN d[key] ELSE default

\* The exception of the first element that raises, "none" if none does
FirstError(errs) ==
    IF \A k \in 1..Len(errs) : errs[k] = "none" THEN "none"
    ELSE errs[CHOOSE k \in 1..Len(errs) :
                /\ errs[k] # "none"
                /\ \A j \in 1..(k - 1) : errs[j] = "none"]

\* _dict_to_script line 60: s.pop("role", None)
PopRoleError(v) ==
    CASE v.t = "dict" -> "none"
      [] v.t = "list" -> "TypeError"
      [] OTHER -> "AttributeError"

WithoutRole(d) == [k \in DOMAIN d \ {"role"} |-> d[k]]

\* models.py lines 9-15: the fields of Step and their defaults (a fresh
\* uuid4 for id); delay_before in milliseconds
StepKeys == {"id", "text", "press_enter", "delay_before"}

Step(kw) ==
    [id |-> Get(kw, "id", JStr("uuid4")),
     text |-> Get(kw, "text", JStr("")),
     press_enter |-> Get(kw, "press_enter", JBool(TRUE)),
     delay_before |-> Get(kw, "delay_before", JNum(300))]

\* _dict_to_script line 61: Step(**s) raises on an unexpected keyword
StepInitError(v) == IF DOMAIN WithoutRole(v.d) \subseteq StepKeys THEN "none" ELSE "TypeError"

\* _dict_to_script, lines 55-69: the exception it raises on d, "none" if it returns
DictToScriptError(d) ==
    IF d.t # "dict" THEN "AttributeError"
    ELSE LET raw_steps == Get(d.d, "steps", JList(<<>>)) IN
         IF ~Iterable(raw_steps) THEN "TypeError"
         ELSE LET items == IterItems(raw_steps)
                  pop == FirstError([k \in 1..Len(items) |-> PopRoleError(items[k])])
              IN  IF pop # "none" THEN pop
                  ELSE IF FirstError([k \in 1..Len(items) |-> StepInitError(items[k])]) # "none"
                  THEN "TypeError"
                  ELSE IF "id" \notin DOMAIN d.d \/ "name" \notin DOMAIN d.d
                  THEN "KeyError"
                  ELSE "none"

\* _dict_to_script, lines 55-69: the Script it returns
_dict_to_script(d) ==
    LET items == IterItems(Get(d.d, "steps", JList(<<>>))) IN
    [id |-> d.d["id"],
     name |-> d.d["name"],
     description |-> Get(d.d, "description", JStr("")),
     steps |-> [k \in 1..Len(items) |-> Step(WithoutRole(items[k].d))],
     created_at |-> Get(d.d, "created_at", JStr("")),
     updated_at |-> Get(d.d, "updated_at", JStr(""))]

\* Mutant: the delay is not written
StepToDict_DropsDelay(st) ==
    JDict([id |-> st.id, text |-> st.text, press_enter |-> st.press_enter])

\* _script_to_dict, lines 78-86: one step
StepToDict(st) ==
    JDict([id |-> st.id, text |-> st.text, press_enter |-> st.press_enter,
           delay_before |-> st.delay_before])

\* _script_to_dict, lines 71-89
_script_to_dict(sc) ==
    JDict([id |-> sc.id, name |-> sc.name, description |-> sc.description,
           steps |-> JList([k \in 1..Len(sc.steps) |-> StepToDict(sc.steps[k])]),
           created_at |-> sc.created_at, updated_at |-> sc.updated_at])

\* load lines 42-43: the exception of open / json.load, "none" if it parses
JsonLoadError(file) ==
    CASE file.kind = "not_utf8" -> "UnicodeDecodeError"
      [] file.kind = "not_json" -> "JSONDecodeError"
      [] OTHER -> "none"

\* load line 45: except (json.JSONDecodeError, KeyError)
LoadCatches(e) == e \in {"JSONDecodeError", "KeyError"}

\* load lines 44: [self._dict_to_script(d) for d in data]
ComprehensionError(data) ==
    IF ~Iterable(data) THEN "TypeError"
    ELSE LET items == IterItems(data) IN
         FirstError([k \in 1..Len(items) |-> DictToScriptError(items[k])])

\* load, lines 38-46
load(file) ==
    IF file.kind = "absent" THEN Returned(<<>>)
    ELSE LET e == IF JsonLoadError(file) # "none" THEN JsonLoadError(file)
                  ELSE ComprehensionError(file.value)
         IN  IF e = "none"
             THEN Returned([k \in 1..Len(IterItems(file.value)) |->
                              _dict_to_script(IterItems(file.value)[k])])
             ELSE IF LoadCatches(e) THEN Returned(<<>>)
             ELSE Raised(e)

\* save, lines 49-52: the file is rewritten as a whole
save(collection) ==
    JsonFile(JList([k \in 1..Len(collection) |-> _script_to_dict(collection[k])]))

\* The engine and the demo runner do not touch the file after construction:
\* in their specifications the storage variables stay as they start
InitStorageVars ==
    /\ disk = Absent
    /\ loaded = NotLoaded
    /\ saved = <<>>

---------------------------------------------------------------------------
(* TyperEngine: the speed setters *)

\* SPEED_PRESETS, lines 30-35: seconds per character, here in microseconds
SPEED_PRESETS ==
    [n \in {"Slow", "Normal", "Fast", "Very Fast"} |->
        CASE n = "Slow" -> 65000
          [] n = "Normal" -> 40000
          [] n = "Fast" -> 22000
          [] n = "Very Fast" -> 10000]

\* max(a, b) of Python on two numbers
max(a, b) == IF b > a THEN b ELSE a

\* No inter-keystroke delay was slept yet
NoSleep == [slept |-> FALSE]

\* __init__ lines 39-40: self.base_delay = self.SPEED_PRESETS["Fast"];
\* self.humanize = True
InitSpeedVars ==
    /\ base_delay = SPEED_PRESETS["Fast"]
    /\ speed_log = <<>>
    /\ humanize = TRUE
    /\ slept = NoSleep

\* set_speed, lines 46-48: self.SPEED_PRESETS.get(preset_name, 0.022)
set_speed(preset_name) ==
    base_delay' = IF preset_name \in DOMAIN SPEED_PRESETS
                  THEN SPEED_PRESETS[preset_name]
                  ELSE 22000

\* Mutant: the delay is taken as given
set_speed_value_Unclamped(delay) == base_delay' = delay

\* set_speed_value, lines 50-52: max(0.003, delay)
set_speed_value(delay) == base_delay' = max(3000, delay)

\* _worker line 97: if char in " .,!?;:\n"
PauseChars == {" ", ".", ",", "!", "?", ";", ":", "\n"}

\* _worker lines 98 and 100: random.uniform(0.01, 0.05) after a pause
\* character, random.uniform(-0.008, 0.015) after any other; in microseconds,
\* the ends of each range and values between them
Jitter(char) ==
    IF char \in PauseChars THEN {10000, 25000, 50000}
    ELSE {-8000, -7001, -1, 0, 15000}

\* Mutant: the delay is not floored
InterKeyDelay_NoFloor(base, hum, jitter) == IF hum THEN base + jitter ELSE base

\* _worker lines 94-101: the delay passed to time.sleep at line 103
InterKeyDelay(base, hum, jitter) == IF hum THEN max(3000, base + jitter) ELSE base

---------------------------------------------------------------------------
(* The engine under an arbitrary caller *)

InitEngineVars ==
    /\ is_typing = FALSE
    /\ stop_flag = FALSE
    /\ workers = <<>>
    /\ last_call = "none"
    /\ disciplined = TRUE
    /\ InitSpeedVars

\* The Tk main loop is not inside _type_next_step
NotAdvancing == [at |-> "idle"]

\* No _type_next_step has run, no step card was clicked
NoAdvance == [found |-> "none"]

NoClick == [at |-> "none"]

InitAppVars ==
    /\ selected_script = 0
    /\ demo_running = FALSE
    /\ demo_step_idx = 0
    /\ hotkey_key = "F2"
    /\ listener = FALSE
    /\ listeners_running = 0
    /\ after_advance = <<>>
    /\ after_typed = 0
    /\ key_dropped = FALSE
    /\ advance_skipped = FALSE
    /\ listener_calls = <<>>
    /\ advance_key = "none"
    /\ advance_pc = NotAdvancing
    /\ selected_step_idx = -1
    /\ clock = 0
    /\ last_op = [op |-> "none", entry |-> ""]
    /\ advance_log = NoAdvance
    /\ click = NoClick

InitEngine ==
    /\ InitEngineVars
    /\ InitAppVars
    /\ InitStorageVars
    /\ scripts = <<>>
    /\ caps_lock \in BOOLEAN
    /\ fault_budget = MaxFaults
    /\ caller_args \in EngineRequests

CallTypeText ==
    /\ Len(workers) < MaxSessions
    /\ type_text(caller_args)
    /\ UNCHANGED <<aux_vars, caps_lock, caller_args, fault_budget, app_vars>>

CallStop == stop /\ UNCHANGED <<aux_vars, caps_lock, caller_args, fault_budget, app_vars>>

NextEngine == CallTypeText \/ CallStop \/ Worker

SpecEngine == InitEngine /\ [][NextEngine]_vars

\* One step of the thread of session w
WorkerOf(w) == w \in Sessions /\ WorkerStep(w) /\ UNCHANGED app_rest

\* The operating system schedules every started thread again and again:
\* every sleep and every key injection of a worker returns or raises
FairSpecEngine == SpecEngine /\ \A w \in 1..MaxSessions : WF_vars(WorkerOf(w))

---------------------------------------------------------------------------
(* DemoScripterApp: the demo runner *)

\* Step k of the demo script (models.py, Step): the steps differ in text,
\* press_enter and delay_before, so that typing the wrong step shows.
DemoStep(k) ==
    [text |-> SubSeq(Sample, k, k),
     press_enter |-> (k % 2 = 1),
     delay_before |-> IF k = 1 THEN 300 ELSE 0]

\* What Storage.load returned at construction (app.py line 117): a script
\* of MaxSteps steps and a script without steps.
InitialScripts ==
    << [name |-> "Demo", steps |-> [k \in 1..MaxSteps |-> DemoStep(k)]],
       [name |-> "Empty", steps |-> <<>>] >>

Keys == {"F2", "F3"}

\* len(self.selected_script.steps), 0 when no script is selected
NumSteps == IF selected_script = 0 THEN 0 ELSE Len(scripts[selected_script].steps)

\* _select_script, lines 678-691
_select_script(k) ==
    /\ selected_script' = k
    /\ UNCHANGED <<aux_vars, engine_vars, scripts, demo_running, demo_step_idx, hotkey_key,
                   listener, listeners_running, after_advance, after_typed, key_dropped, advance_skipped>>

\* Mutant: the click does not move the runner
StepClickIdx_Ignored(idx) == demo_step_idx

\* _on_step_click lines 820-821: if self.demo_running: self.demo_step_idx = idx
StepClickIdx(idx) == IF demo_running THEN idx ELSE demo_step_idx

\* _on_step_click, lines 818-822: a click on step card idx (counted from 0)
\* of the selected script; while the demo runs the runner jumps to that step
_on_step_click(idx) ==
    /\ demo_step_idx' = StepClickIdx(idx)
    /\ UNCHANGED <<aux_vars, engine_vars, scripts, selected_script, demo_running, hotkey_key,
                   listener, listeners_running, after_advance, after_typed, key_dropped, advance_skipped>>

\* _stop_listener, lines 1032-1035
_stop_listener ==
    /\ listener' = FALSE
    /\ listeners_running' = IF listener THEN listeners_running - 1 ELSE listeners_running

\* Mutant: a new listener is started beside the existing one
_start_listener_KeepsOld ==
    /\ listener' = TRUE
    /\ listeners_running' = listeners_running + 1

\* _start_listener, lines 1026-1030
_start_listener ==
    /\ listener' = TRUE
    /\ listeners_running' = (IF listener THEN listeners_running - 1 ELSE listeners_running) + 1

\* Mutant: a script without steps can be started
StartDemoRefuses_IgnoresSteps == selected_script = 0

\* _start_demo line 973: not self.selected_script or not self.selected_script.steps
StartDemoRefuses == selected_script = 0 \/ NumSteps = 0

\* What _start_demo does when it does not refuse, lines 976-980
StartDemo ==
    /\ demo_running' = TRUE
    /\ demo_step_idx' = 0
    /\ _start_listener

\* _start_demo, lines 971-980
_start_demo ==
    IF StartDemoRefuses
    THEN UNCHANGED vars
    ELSE /\ StartDemo
         /\ UNCHANGED <<aux_vars, engine_vars, scripts, selected_script, hotkey_key,
                        after_advance, after_typed, key_dropped, advance_skipped>>

\* What _stop_demo does to the runner and the engine, lines 982-989
StopDemo ==
    /\ demo_running' = FALSE
    /\ stop
    /\ _stop_listener
    /\ demo_step_idx' = 0
    /\ advance_skipped' = FALSE

\* Mutant: the index is not reset
_stop_demo_KeepsIndex ==
    /\ demo_running' = FALSE
    /\ stop
    /\ _stop_listener
    /\ advance_skipped' = FALSE
    /\ UNCHANGED <<aux_vars, caps_lock, caller_args, fault_budget, scripts, selected_script, hotkey_key,
                   after_advance, after_typed, key_dropped, demo_step_idx>>

\* _stop_demo, lines 982-989
_stop_demo ==
    /\ StopDemo
    /\ UNCHANGED <<aux_vars, caps_lock, caller_args, fault_budget, scripts, selected_script, hotkey_key,
                   after_advance, after_typed, key_dropped>>

\* _toggle_demo, lines 965-969: the Start / Stop button
_toggle_demo == IF demo_running THEN _stop_demo ELSE _start_demo

\* Mutant: a trigger-key change starts a listener whether a demo runs or not
HotkeyRestartsListener_Always == TRUE

\* _on_hotkey_change line 958: if self.demo_running
HotkeyRestartsListener == demo_running

\* _on_hotkey_change, lines 949-960
_on_hotkey_change(value) ==
    /\ hotkey_key' = value
    /\ IF HotkeyRestartsListener THEN _start_listener ELSE UNCHANGED <<listener, listeners_running>>
    /\ UNCHANGED <<aux_vars, engine_vars, scripts, selected_script, demo_running, demo_step_idx,
                   after_advance, after_typed, key_dropped, advance_skipped>>

\* self.after(10, self._type_next_step), line 1039.  The callback carries, as
\* history, whether a step was within range when the key was pressed.
ScheduleAdvance == Append(after_advance, [in_range |-> demo_step_idx < NumSteps])

\* Mutant: the guard does not look at is_typing
OnGlobalKeyAccepts_NoTypingGuard(key) == key = hotkey_key /\ demo_running

\* Mutant: every key triggers
OnGlobalKeyAccepts_AnyKey(key) == demo_running /\ ~is_typing

\* _on_global_key, lines 1037-1039, on the listener's thread
OnGlobalKeyAccepts(key) == key = hotkey_key /\ demo_running /\ ~is_typing

\* Mutant: the listener's thread moves the index itself
OnGlobalKey_AdvancesInline(key) ==
    /\ key_dropped' = (IF key = hotkey_key /\ demo_running THEN is_typing ELSE key_dropped)
    /\ demo_step_idx' = IF OnGlobalKeyAccepts(key) /\ demo_step_idx < NumSteps
                        THEN demo_step_idx + 1 ELSE demo_step_idx
    /\ IF OnGlobalKeyAccepts(key)
       THEN /\ Len(after_advance) < MaxPending
            /\ after_advance' = ScheduleAdvance
       ELSE UNCHANGED after_advance
    /\ UNCHANGED <<engine_vars, scripts, selected_script, demo_running,
                   hotkey_key, listener, listeners_running, after_typed, advance_skipped>>

\* The handler's body, whichever listener thread calls it
OnGlobalKey(key) ==
    /\ key_dropped' = (IF key = hotkey_key /\ demo_running THEN is_typing ELSE key_dropped)
    /\ IF OnGlobalKeyAccepts(key)
       THEN /\ Len(after_advance) < MaxPending
            /\ after_advance' = ScheduleAdvance
       ELSE UNCHANGED after_advance
    /\ UNCHANGED <<engine_vars, scripts, selected_script, demo_running, demo_step_idx,
                   hotkey_key, listener, listeners_running, after_typed, advance_skipped>>

\* The handler called by the application's running listener
_on_global_key(key) ==
    /\ listeners_running > 0
    /\ OnGlobalKey(key)
    /\ UNCHANGED aux_vars

\* The step _type_next_step hands to the engine, lines 1047 and 1050-1055
StepRequest(step) ==
    Request(step.text, step.press_enter, step.delay_before, FALSE, "after")

\* Mutant: the advance does not look at demo_running
AdvanceReturnsEarly_IgnoresStop ==
    \/ selected_script = 0
    \/ demo_step_idx >= NumSteps

\* Mutant: the first step is typed again
StepToType_First == scripts[selected_script].steps[1]

\* step = steps[self.demo_step_idx], line 1047 (Python counts from 0)
StepToType == scripts[selected_script].steps[demo_step_idx + 1]

\* Mutant: the index is left where it was
NextStepIdx_Stuck == demo_step_idx

\* self.demo_step_idx += 1, line 1048
NextStepIdx == demo_step_idx + 1

\* _type_next_step returns early, lines 1042-1046
AdvanceReturnsEarly ==
    \/ selected_script = 0
    \/ ~demo_running
    \/ demo_step_idx >= NumSteps

\* What _type_next_step finds, in the order of lines 1042-1046
AdvanceFinds ==
    IF selected_script = 0 THEN "no_script"
    ELSE IF ~demo_running THEN "stopped"
    ELSE IF demo_step_idx >= NumSteps THEN "past_end"
    ELSE "typed"

\* Mutant: past the last step the runner starts over
AdvanceNoOp_Wraps == demo_step_idx' = 0 /\ UNCHANGED engine_vars

\* The return statements of lines 1043 and 1046: nothing is done
AdvanceNoOp == UNCHANGED <<engine_vars, demo_step_idx>>

\* The body of _type_next_step, lines 1041-1055; fields are step.text,
\* step.press_enter and step.delay_before of the step it read
TypeNextStep(fields) ==
    /\ after_advance # <<>>
    /\ after_advance' = Tail(after_advance)
    /\ IF AdvanceReturnsEarly
       THEN /\ AdvanceNoOp
            /\ advance_skipped' = (selected_script # 0 /\ demo_running)
       ELSE /\ Len(workers) < MaxSessions
            /\ demo_step_idx' = NextStepIdx
            /\ type_text(StepRequest(fields))
            /\ advance_skipped' = FALSE
            /\ UNCHANGED <<caps_lock, caller_args, fault_budget>>
    /\ UNCHANGED <<scripts, selected_script, demo_running, hotkey_key,
                   listener, listeners_running, after_typed, key_dropped>>

\* _type_next_step, lines 1041-1055, run by the Tk main loop when the oldest
\* after(10, ...) timer fires
_type_next_step == TypeNextStep(StepToType) /\ UNCHANGED aux_vars

\* _on_step_typed, lines 1057-1058, run by the Tk main loop: it redraws only
_on_step_typed ==
    /\ after_typed > 0
    /\ after_typed' = after_typed - 1
    /\ UNCHANGED <<aux_vars, engine_vars, scripts, selected_script, demo_running, demo_step_idx,
                   hotkey_key, listener, listeners_running, after_advance, key_dropped, advance_skipped>>

Init ==
    /\ InitEngineVars
    /\ InitAppVars
    /\ InitStorageVars
    /\ scripts = InitialScripts
    /\ caps_lock = FALSE
    /\ fault_budget = MaxAppFaults
    /\ caller_args = StepRequest(DemoStep(1))

SelectScript == \E k \in 1..Len(scripts) : _select_script(k)

ToggleDemo == _toggle_demo

StepClick == \E idx \in 0..(NumSteps - 1) : _on_step_click(idx)

HotkeyChange == \E value \in Keys : _on_hotkey_change(value)

KeyPress == \E key \in Keys : _on_global_key(key)

Next ==
    \/ SelectScript
    \/ ToggleDemo
    \/ StepClick
    \/ HotkeyChange
    \/ KeyPress
    \/ _type_next_step
    \/ _on_step_typed
    \/ Worker

Spec == Init /\ [][Next]_vars

---------------------------------------------------------------------------
(* The files the storage specification starts from *)

\* Steps and scripts as the application holds them (models.py lines 9-33)
StoredSteps ==
    << [id |-> JStr("a"), text |-> JStr("Hi"), press_enter |-> JBool(TRUE), delay_before |-> JNum(300)],
       [id |-> JStr("b"), text |-> JStr(""), press_enter |-> JBool(FALSE), delay_before |-> JNum(0)] >>

StoredScripts ==
    { [id |-> JStr("s"), name |-> JStr("Demo"), description |-> JStr(desc), steps |-> st,
       created_at |-> JStr("t0"), updated_at |-> JStr("t1")] :
        desc \in {"", "d"},
        st \in { <<>>, StoredSteps, <<StoredSteps[2], StoredSteps[1]>> } }

\* The collections save is called with
Collections == UNION { [1..n -> StoredScripts] : n \in 0..MaxScripts }

\* A script record on disk with the given steps value
ScriptOnDisk(steps) ==
    JDict([id |-> JStr("s"), name |-> JStr("Demo"), description |-> JStr("d"),
           steps |-> steps, created_at |-> JStr("t0"), updated_at |-> JStr("t1")])

\* A file written by an earlier version: its steps carry a role
LegacyStep ==
    JDict([id |-> JStr("a"), text |-> JStr("Hi"), role |-> JStr("user"),
           press_enter |-> JBool(TRUE), delay_before |-> JNum(300)])

LegacyFile == JsonFile(JList(<< ScriptOnDisk(JList(<<LegacyStep, StepToDict(StoredSteps[2])>>)) >>))

\* Files that hold JSON of another shape than a list of script records
MisshapenValues ==
    { JNull, JNum(1), JBool(TRUE), JStr("scripts"),
      JDict([scripts |-> JList(<<>>)]),
      JList(<<JNum(1)>>), JList(<<JNull>>), JList(<<JStr("s")>>), JList(<<JList(<<>>)>>),
      JList(<<JDict([name |-> JStr("Demo")])>>),
      JList(<<JDict([id |-> JStr("s")])>>),
      JList(<<ScriptOnDisk(JList(<<>>)), JDict([name |-> JStr("Demo")])>>),
      JList(<<JDict([id |-> JStr("s")]), JNum(1)>>),
      JList(<<JNum(1), JDict([id |-> JStr("s")])>>),
      JList(<<JDict([name |-> JStr("Demo"), steps |-> JNull])>>),
      JList(<<ScriptOnDisk(JNull)>>),
      JList(<<ScriptOnDisk(JNum(2))>>),
      JList(<<ScriptOnDisk(JStr("Hi"))>>),
      JList(<<ScriptOnDisk(JDict([a |-> JStr("Hi")]))>>),
      JList(<<ScriptOnDisk(JList(<<JStr("Hi")>>))>>),
      JList(<<ScriptOnDisk(JList(<<JNull>>))>>),
      JList(<<ScriptOnDisk(JList(<<JList(<<>>)>>))>>),
      JList(<<ScriptOnDisk(JList(<<JDict([text |-> JStr("Hi"), speed |-> JNum(1)])>>))>>) }

\* Files of the right shape that save did not write: an empty list, an empty
\* dict, records with optional keys missing, the legacy file
OtherValues ==
    { JList(<<>>), JDict(<<>>), JStr(""),
      JList(<<JDict([id |-> JStr("s"), name |-> JStr("Demo")])>>),
      JList(<<ScriptOnDisk(JList(<<JDict([text |-> JStr("Hi")])>>))>>),
      JList(<<ScriptOnDisk(JList(<<JDict(<<>>)>>))>>) }

DiskImages ==
    {Absent, NotUtf8, NotJson, LegacyFile}
    \cup { JsonFile(v) : v \in MisshapenValues \cup OtherValues }

\* What the file may be when the application starts
InitStorage ==
    /\ InitEngineVars
    /\ InitAppVars
    /\ scripts = <<>>
    /\ caps_lock = FALSE
    /\ fault_budget = MaxAppFaults
    /\ caller_args = StepRequest(DemoStep(1))
    /\ disk \in DiskImages
    /\ loaded = NotLoaded
    /\ saved = <<>>

\* Storage.load, called at construction (app.py line 117)
StorageLoad ==
    /\ loaded' = load(disk)
    /\ UNCHANGED <<disk, saved>>
    /\ UNCHANGED <<engine_vars, app_vars, listener_calls, speed_vars, delay_vars, key_vars, editor_vars, live_vars>>

\* Storage.save, called by _save (app.py lines 1067-1068)
StorageSave ==
    \E collection \in Collections :
        /\ disk' = save(collection)
        /\ saved' = <<collection>>
        /\ loaded' = NotLoaded
        /\ UNCHANGED <<engine_vars, app_vars, listener_calls, speed_vars, delay_vars, key_vars, editor_vars, live_vars>>

NextStorage == StorageLoad \/ StorageSave

SpecStorage == InitStorage /\ [][NextStorage]_vars

---------------------------------------------------------------------------
(* The speed setters under an arbitrary caller *)

\* The names a caller may pass: the presets, an unknown name and the empty one
SpeedNames == DOMAIN SPEED_PRESETS \cup {"Turbo", ""}

\* The delays a caller may pass, in microseconds: around the floor and beyond
SpeedValues == {-8000, 0, 2999, 3000, 3001, 100000}

CallSetSpeed ==
    \E name \in SpeedNames :
        /\ Len(speed_log) < MaxSpeedCalls
        /\ set_speed(name)
        /\ speed_log' = Append(speed_log, [op |-> "set_speed", name |-> name])
        /\ UNCHANGED <<engine_vars, app_vars, listener_calls, storage_vars, delay_vars, key_vars, editor_vars, live_vars>>

CallSetSpeedValue ==
    \E delay \in SpeedValues :
        /\ Len(speed_log) < MaxSpeedCalls
        /\ set_speed_value(delay)
        /\ speed_log' = Append(speed_log, [op |-> "set_speed_value", delay |-> delay])
        /\ UNCHANGED <<engine_vars, app_vars, listener_calls, storage_vars, delay_vars, key_vars, editor_vars, live_vars>>

NextSpeed == CallSetSpeed \/ CallSetSpeedValue

SpecSpeed == InitEngine /\ [][NextSpeed]_vars

---------------------------------------------------------------------------
(* The inter-keystroke delay under every base rate the setters can leave *)

\* The characters after which a worker sleeps
DelayChars == {"H", "i", " ", "!", ".", "\n"}

DelaySetSpeed ==
    \E name \in SpeedNames :
        /\ set_speed(name)
        /\ UNCHANGED <<engine_vars, app_vars, listener_calls, storage_vars, delay_vars, speed_log, key_vars, editor_vars, live_vars>>

DelaySetSpeedValue ==
    \E delay \in SpeedValues :
        /\ set_speed_value(delay)
        /\ UNCHANGED <<engine_vars, app_vars, listener_calls, storage_vars, delay_vars, speed_log, key_vars, editor_vars, live_vars>>

\* The caller assigns the engine's public attribute humanize
SetHumanize ==
    \E value \in BOOLEAN :
        /\ humanize' = value
        /\ UNCHANGED <<engine_vars, app_vars, listener_calls, storage_vars, speed_vars, slept, key_vars, editor_vars, live_vars>>

\* _worker lines 93-103 after a character was typed: the delay is computed
\* from the base rate and the jitter drawn, and slept
WorkerDelay ==
    \E char \in DelayChars : \E jitter \in Jitter(char) :
        /\ slept' = [slept |-> TRUE, char |-> char, jitter |-> jitter, humanize |-> humanize,
                     base |-> base_delay,
                     delay |-> InterKeyDelay(base_delay, humanize, jitter)]
        /\ UNCHANGED <<engine_vars, app_vars, listener_calls, storage_vars, speed_vars, humanize, key_vars, editor_vars, live_vars>>

NextDelay == DelaySetSpeed \/ DelaySetSpeedValue \/ SetHumanize \/ WorkerDelay

SpecDelay == InitEngine /\ [][NextDelay]_vars

---------------------------------------------------------------------------
(* The listener under arbitrary calls of its two methods *)

\* What a direct call of _start_listener or _stop_listener leaves alone
listener_rest == <<engine_vars, scripts, selected_script, demo_running, demo_step_idx, hotkey_key,
                   after_advance, after_typed, key_dropped, advance_skipped>>

CallStartListener ==
    /\ Len(listener_calls) < MaxListenerCalls
    /\ _start_listener
    /\ listener_calls' = Append(listener_calls, "start")
    /\ UNCHANGED <<listener_rest, speed_vars, storage_vars, delay_vars, key_vars, editor_vars, live_vars>>

CallStopListener ==
    /\ Len(listener_calls) < MaxListenerCalls
    /\ _stop_listener
    /\ listener_calls' = Append(listener_calls, "stop")
    /\ UNCHANGED <<listener_rest, speed_vars, storage_vars, delay_vars, key_vars, editor_vars, live_vars>>

NextListener ==
    \/ CallStartListener
    \/ CallStopListener
    \/ SelectScript
    \/ ToggleDemo
    \/ HotkeyChange

SpecListener == Init /\ [][NextListener]_vars

---------------------------------------------------------------------------
(* Key events of any key at any time: from the running listener, and from  *)
(* a listener thread that was delivering an event when it was stopped       *)

KeyEvent ==
    \E key \in Keys :
        /\ OnGlobalKey(key)
        /\ advance_key' = IF OnGlobalKeyAccepts(key) THEN key ELSE advance_key
        /\ UNCHANGED <<listener_calls, speed_vars, storage_vars, delay_vars, advance_pc, editor_vars, live_vars>>

NextKeys ==
    \/ SelectScript
    \/ ToggleDemo
    \/ HotkeyChange
    \/ KeyEvent
    \/ _type_next_step
    \/ _on_step_typed
    \/ Worker

SpecKeys == Init /\ [][NextKeys]_vars

---------------------------------------------------------------------------
(* _type_next_step statement by statement: the listener's and the workers'  *)
(* threads run between its statements, the Tk main loop's other callbacks   *)
(* do not                                                                   *)

\* What neither half of _type_next_step touches
advance_rest == <<listener_calls, speed_vars, storage_vars, delay_vars, advance_key, editor_vars,
                  live_vars,
                  scripts, selected_script, demo_running, hotkey_key,
                  listener, listeners_running, after_typed, key_dropped>>

\* _type_next_step lines 1041-1049: the early returns, step = steps[idx],
\* self.demo_step_idx += 1 and the redraw
AdvanceBegin ==
    /\ advance_pc = NotAdvancing
    /\ after_advance # <<>>
    /\ after_advance' = Tail(after_advance)
    /\ IF AdvanceReturnsEarly
       THEN /\ AdvanceNoOp
            /\ advance_skipped' = (selected_script # 0 /\ demo_running)
            /\ UNCHANGED advance_pc
       ELSE /\ Len(workers) < MaxSessions
            /\ advance_pc' = [at |-> "type_text", step |-> StepToType, idx |-> demo_step_idx]
            /\ demo_step_idx' = NextStepIdx
            /\ advance_skipped' = FALSE
            /\ UNCHANGED engine_vars
    /\ UNCHANGED advance_rest

\* _type_next_step lines 1050-1055: self.typer.type_text(...) with the
\* captured step
AdvanceTypeText ==
    /\ advance_pc # NotAdvancing
    /\ type_text(StepRequest(advance_pc.step))
    /\ advance_pc' = NotAdvancing
    /\ UNCHANGED <<caps_lock, caller_args, fault_budget, demo_step_idx, after_advance,
                   advance_skipped, advance_rest>>

\* The Tk main loop runs one callback at a time
UIIdle == advance_pc = NotAdvancing

NextAdvance ==
    \/ UIIdle /\ SelectScript
    \/ UIIdle /\ ToggleDemo
    \/ UIIdle /\ StepClick
    \/ UIIdle /\ _on_step_typed
    \/ AdvanceBegin
    \/ AdvanceTypeText
    \/ KeyPress
    \/ Worker

SpecAdvance == Init /\ [][NextAdvance]_vars

---------------------------------------------------------------------------
(* One run of a demo: the script is selected, the demo started, and the     *)
(* trigger key pressed only after the previous press's session has exited   *)

\* The steps a script may hold (models.py, Step)
RunSteps ==
    { [text |-> t, press_enter |-> e, delay_before |-> 0] : t \in Texts, e \in BOOLEAN }

\* What Storage.load may have returned: one script of 1..MaxSteps steps
RunScripts ==
    { << [name |-> "Run", steps |-> st] >> :
        st \in UNION { [1..n -> RunSteps] : n \in 1..MaxSteps } }

InitDemoRun ==
    /\ InitEngineVars
    /\ InitAppVars
    /\ InitStorageVars
    /\ scripts \in RunScripts
    /\ caps_lock \in BOOLEAN
    /\ fault_budget = MaxAppFaults
    /\ caller_args = StepRequest(DemoStep(1))

RunSelect == selected_script = 0 /\ _select_script(1)

RunStart == selected_script # 0 /\ ~demo_running /\ _toggle_demo

\* Other keys are pressed at any time, the trigger key only when no advance
\* is pending and no session is live
RunPress ==
    \E key \in Keys :
        /\ key = hotkey_key => after_advance = <<>> /\ LiveWorkers = {}
        /\ _on_global_key(key)

NextDemoRun ==
    \/ RunSelect
    \/ RunStart
    \/ RunPress
    \/ _type_next_step
    \/ _on_step_typed
    \/ Worker

SpecDemoRun == InitDemoRun /\ [][NextDemoRun]_vars

---------------------------------------------------------------------------
(* DemoScripterApp: the script editor.  The handlers read the widgets; what  *)
(* the user typed into them is the handler's input here.  The runner's       *)
(* specifications do not follow the editor: there selected_step_idx, clock   *)
(* and last_op stay as they start.                                            *)

\* editor handlers run in one behaviour
MaxEdits == 4

\* datetime.now().isoformat() while a handler runs: time has passed since
\* the previous handler
Now == JStr(clock + 1)

\* Script.touch, models.py lines 35-37
touch(sc) == [sc EXCEPT !.updated_at = Now]

\* What Storage.load returned at construction: a script with one step and a
\* script without steps, both written at time 0
EditScripts ==
    << [id |-> JStr("s1"), name |-> JStr("Demo"), description |-> JStr(""),
        steps |-> << [id |-> JStr("a"), text |-> JStr("Hi"),
                      press_enter |-> JBool(TRUE), delay_before |-> JNum(300)] >>,
        created_at |-> JStr(0), updated_at |-> JStr(0)],
       [id |-> JStr("s2"), name |-> JStr("Talk"), description |-> JStr("d"),
        steps |-> <<>>, created_at |-> JStr(0), updated_at |-> JStr(0)] >>

\* What the user may have typed into the name, description and text widgets
EditNames == {"Demo", "Talk"}

EditDescriptions == {"", "d"}

EditTexts == {"", "Hi"}

\* What the user may have typed into the delay entry
DelayEntries == {"0", "0.3", "0.5", "-1", "nan", "abc", ""}

\* float(entry), line 927: the value, a number in milliseconds or nan, or
\* ValueError
Float(entry) ==
    CASE entry = "0" -> [ok |-> TRUE, value |-> JNum(0)]
      [] entry = "0.3" -> [ok |-> TRUE, value |-> JNum(300)]
      [] entry = "0.5" -> [ok |-> TRUE, value |-> JNum(500)]
      [] entry = "-1" -> [ok |-> TRUE, value |-> JNum(-1000)]
      [] entry = "nan" -> [ok |-> TRUE, value |-> JNaN]
      [] OTHER -> [ok |-> FALSE]

\* list.insert(k, x), del list[k] and the swap of two items, positions from 1
InsertAt(seq, k, x) == SubSeq(seq, 1, k - 1) \o <<x>> \o SubSeq(seq, k, Len(seq))

RemoveAt(seq, k) == SubSeq(seq, 1, k - 1) \o SubSeq(seq, k + 1, Len(seq))

Swap(seq, i, j) == [seq EXCEPT ![i] = seq[j], ![j] = seq[i]]

\* self.selected_script
SelectedScript == scripts[selected_script]

\* _current_step, lines 903-907: the position (from 1) of the step, 0 for None
_current_step ==
    IF /\ selected_script # 0
       /\ selected_step_idx # -1
       /\ 0 <= selected_step_idx
       /\ selected_step_idx < Len(SelectedScript.steps)
    THEN selected_step_idx + 1
    ELSE 0

\* _save, lines 1067-1068: Storage.save(self.scripts) rewrites the file
_save ==
    /\ disk' = save(scripts')
    /\ saved' = <<scripts'>>
    /\ loaded' = NotLoaded

\* The handler leaves the selected script as sc and the selection at idx,
\* and saves
Edited(sc, idx) ==
    /\ scripts' = [scripts EXCEPT ![selected_script] = sc]
    /\ selected_step_idx' = idx
    /\ _save

\* The handler returns before it has done anything
NotEdited == UNCHANGED <<scripts, selected_step_idx, storage_vars>>

\* the script with its steps replaced
WithSteps(sc, steps) == [sc EXCEPT !.steps = steps]

\* the script with one field of the step at position k replaced
WithStepField(sc, k, field, value) == [sc EXCEPT !.steps[k][field] = value]

\* _select_script as the editor sees it, lines 678-691
EditSelectScript(k) ==
    /\ selected_script' = k
    /\ selected_step_idx' = -1
    /\ UNCHANGED <<scripts, storage_vars>>

\* _select_step, lines 824-835
_select_step(idx) ==
    /\ selected_step_idx' =
         IF selected_script = 0 \/ idx < 0 \/ idx >= Len(SelectedScript.steps)
         THEN selected_step_idx ELSE idx
    /\ UNCHANGED <<scripts, storage_vars>>

\* _add_step, lines 837-845
_add_step ==
    IF selected_script = 0 THEN NotEdited
    ELSE LET steps == Append(SelectedScript.steps, Step(<<>>)) IN
         Edited(touch(WithSteps(SelectedScript, steps)), Len(steps) - 1)

\* _duplicate_step, lines 847-858
_duplicate_step ==
    IF selected_script = 0 \/ selected_step_idx = -1 THEN NotEdited
    ELSE LET src == SelectedScript.steps[selected_step_idx + 1]
             new == Step([text |-> src.text, press_enter |-> src.press_enter,
                          delay_before |-> src.delay_before])
             insert_at == selected_step_idx + 1
         IN  Edited(touch(WithSteps(SelectedScript,
                                    InsertAt(SelectedScript.steps, insert_at + 1, new))),
                    insert_at)

\* _delete_step, lines 860-869
_delete_step ==
    IF selected_script = 0 \/ selected_step_idx = -1 THEN NotEdited
    ELSE Edited(touch(WithSteps(SelectedScript,
                                RemoveAt(SelectedScript.steps, selected_step_idx + 1))),
                -1)

\* _move_step_up, lines 871-880
_move_step_up ==
    IF selected_script = 0 \/ selected_step_idx = -1 \/ selected_step_idx = 0 THEN NotEdited
    ELSE LET i == selected_step_idx IN
         Edited(touch(WithSteps(SelectedScript, Swap(SelectedScript.steps, i, i + 1))), i - 1)

\* _move_step_down, lines 882-893
_move_step_down ==
    IF selected_script = 0 \/ selected_step_idx = -1 THEN NotEdited
    ELSE LET i == selected_step_idx IN
         IF i >= Len(SelectedScript.steps) - 1 THEN NotEdited
         ELSE Edited(touch(WithSteps(SelectedScript, Swap(SelectedScript.steps, i + 1, i + 2))),
                     i + 1)

\* _on_step_text_change, lines 909-915
_on_step_text_change(text) ==
    IF _current_step = 0 THEN NotEdited
    ELSE Edited(touch(WithStepField(SelectedScript, _current_step, "text", JStr(text))),
                selected_step_idx)

\* _on_enter_toggle, lines 917-921
_on_enter_toggle(value) ==
    IF _current_step = 0 THEN NotEdited
    ELSE Edited(WithStepField(SelectedScript, _current_step, "press_enter", JBool(value)),
                selected_step_idx)

\* _on_delay_change, lines 923-930
_on_delay_change(entry) ==
    IF _current_step = 0 THEN NotEdited
    ELSE IF Float(entry).ok
    THEN Edited(WithStepField(SelectedScript, _current_step, "delay_before",
                              Float(entry).value),
                selected_step_idx)
    ELSE Edited(SelectedScript, selected_step_idx)

\* _on_name_change, lines 932-937
_on_name_change(name) ==
    IF selected_script = 0 THEN NotEdited
    ELSE Edited(touch([SelectedScript EXCEPT !.name = JStr(name)]), selected_step_idx)

\* _on_desc_change, lines 939-943
_on_desc_change(desc) ==
    IF selected_script = 0 THEN NotEdited
    ELSE Edited(touch([SelectedScript EXCEPT !.description = JStr(desc)]), selected_step_idx)

\* uuid.uuid4(): an id no other script or step has
Uuid4 == [t |-> "str", s |-> "uuid4", k |-> clock + 1]

\* The handler appends the script, selects it (_select_script, lines
\* 678-691) and saves
Appended(script) ==
    /\ scripts' = Append(scripts, script)
    /\ selected_script' = Len(scripts) + 1
    /\ selected_step_idx' = -1
    /\ _save

\* _new_script, lines 693-697
_new_script ==
    Appended([id |-> Uuid4,
              name |-> [t |-> "str", s |-> "Demo Script", n |-> Len(scripts) + 1],
              description |-> JStr(""), steps |-> <<>>,
              created_at |-> Now, updated_at |-> Now])

\* [s for s in self.scripts if s.id != id], line 704
WithoutId(seq, id) == LET Keeps(sc) == sc.id # id IN SelectSeq(seq, Keeps)

\* _delete_script, lines 699-713; confirmed is the answer to askyesno
_delete_script(confirmed) ==
    IF selected_script = 0 \/ ~confirmed
    THEN NotEdited /\ UNCHANGED selected_script
    ELSE /\ scripts' = WithoutId(scripts, SelectedScript.id)
         /\ selected_script' = 0
         /\ selected_step_idx' = -1
         /\ _save

\* A script file as _export_script wrote it from an earlier version, with an
\* id the collection already has, and files that are no script
ImportedScript ==
    JDict([id |-> JStr("s1"), name |-> JStr("Talk"),
           steps |-> JList(<< JDict([id |-> JStr("a"), text |-> JStr("Hi"), role |-> JStr("user"),
                                     press_enter |-> JBool(TRUE), delay_before |-> JNum(300)]) >>),
           created_at |-> JStr(0), updated_at |-> JStr(0)])

ImportFiles == {Absent, NotJson, JsonFile(JList(<<>>)), JsonFile(JDict([id |-> JStr("s1")])),
                JsonFile(ImportedScript)}

\* _import_script, lines 616-635; Absent stands for a file dialog that was
\* cancelled.  Every exception of open, json.load and _dict_to_script is
\* caught (line 634) before anything was appended.
_import_script(file) ==
    IF \/ file = Absent
       \/ JsonLoadError(file) # "none"
       \/ DictToScriptError(file.value) # "none"
    THEN NotEdited /\ UNCHANGED selected_script
    ELSE Appended([_dict_to_script(file.value) EXCEPT !.id = Uuid4])

\* What no editor handler touches
editor_rest == <<engine_vars, demo_running, demo_step_idx, hotkey_key, listener,
                 listeners_running, after_advance, after_typed, key_dropped, advance_skipped,
                 listener_calls, speed_vars, delay_vars, key_vars, live_vars>>

\* The user does one thing in the editor, at a later time than the last
UserDoes(op, entry) ==
    /\ clock < MaxEdits
    /\ clock' = clock + 1
    /\ last_op' = [op |-> op, entry |-> entry]
    /\ UNCHANGED editor_rest

\* The step list has room for one more step
RoomForStep == selected_script # 0 => Len(SelectedScript.steps) < MaxSteps

EditorSelectScript ==
    \E k \in 1..Len(scripts) : EditSelectScript(k) /\ UserDoes("_select_script", "")

EditorSelectStep ==
    \E idx \in 0..(MaxSteps - 1) :
        _select_step(idx) /\ UserDoes("_select_step", "") /\ UNCHANGED selected_script

AddStep == RoomForStep /\ _add_step /\ UserDoes("_add_step", "") /\ UNCHANGED selected_script

DuplicateStep ==
    RoomForStep /\ _duplicate_step /\ UserDoes("_duplicate_step", "") /\ UNCHANGED selected_script

DeleteStep == _delete_step /\ UserDoes("_delete_step", "") /\ UNCHANGED selected_script

MoveStepUp == _move_step_up /\ UserDoes("_move_step_up", "") /\ UNCHANGED selected_script

MoveStepDown == _move_step_down /\ UserDoes("_move_step_down", "") /\ UNCHANGED selected_script

StepTextChange ==
    \E text \in EditTexts :
        _on_step_text_change(text) /\ UserDoes("_on_step_text_change", "")
        /\ UNCHANGED selected_script

EnterToggle ==
    \E value \in BOOLEAN :
        _on_enter_toggle(value) /\ UserDoes("_on_enter_toggle", "") /\ UNCHANGED selected_script

DelayChange ==
    \E entry \in DelayEntries :
        _on_delay_change(entry) /\ UserDoes("_on_delay_change", entry)
        /\ UNCHANGED selected_script

NameChange ==
    \E name \in EditNames :
        _on_name_change(name) /\ UserDoes("_on_name_change", "") /\ UNCHANGED selected_script

DescChange ==
    \E desc \in EditDescriptions :
        _on_desc_change(desc) /\ UserDoes("_on_desc_change", "") /\ UNCHANGED selected_script

\* The script list has room for one more script
RoomForScript == Len(scripts) <= MaxScripts

NewScript == RoomForScript /\ _new_script /\ UserDoes("_new_script", "")

DeleteScript ==
    \E confirmed \in BOOLEAN : _delete_script(confirmed) /\ UserDoes("_delete_script", "")

ImportScript ==
    \E file \in ImportFiles :
        RoomForScript /\ _import_script(file) /\ UserDoes("_import_script", "")

InitEditor ==
    /\ InitEngineVars
    /\ InitAppVars
    /\ scripts = EditScripts
    /\ caps_lock = FALSE
    /\ fault_budget = MaxAppFaults
    /\ caller_args = StepRequest(DemoStep(1))
    /\ disk = save(EditScripts)
    /\ loaded = load(disk)
    /\ saved = <<>>

NextEditor ==
    \/ EditorSelectScript
    \/ EditorSelectStep
    \/ AddStep
    \/ DuplicateStep
    \/ DeleteStep
    \/ MoveStepUp
    \/ MoveStepDown
    \/ StepTextChange
    \/ EnterToggle
    \/ DelayChange
    \/ NameChange
    \/ DescChange
    \/ NewScript
    \/ DeleteScript
    \/ ImportScript

SpecEditor == InitEditor /\ [][NextEditor]_vars

---------------------------------------------------------------------------
(* DemoScripterApp: the editor and the demo runner together, until the      *)
(* application quits.  The trigger key is pressed as in the ordered demo    *)
(* run: only when no advance is pending and no session is live.             *)

\* Step k of the demo script as the Step record Storage.load returns
LiveStep(k) ==
    [id |-> [t |-> "str", s |-> "step", k |-> k], text |-> JStr(DemoStep(k).text),
     press_enter |-> JBool(DemoStep(k).press_enter),
     delay_before |-> JNum(DemoStep(k).delay_before)]

\* What Storage.load returned at construction (app.py line 117): the demo
\* script and a script without steps, as Script records
LiveScripts ==
    << [id |-> JStr("s1"), name |-> JStr("Demo"), description |-> JStr(""),
        steps |-> [k \in 1..MaxSteps |-> LiveStep(k)],
        created_at |-> JStr(0), updated_at |-> JStr(0)],
       [id |-> JStr("s2"), name |-> JStr("Empty"), description |-> JStr(""),
        steps |-> <<>>, created_at |-> JStr(0), updated_at |-> JStr(0)] >>

\* step.text, step.press_enter and step.delay_before of a Step record, lines
\* 1051-1053
Fields(step) ==
    [text |-> step.text.s, press_enter |-> step.press_enter.b,
     delay_before |-> step.delay_before.n]

\* destroy() has not run: the Tk main loop and the threads are running
Alive == last_op.op # "_full_quit"

\* A click on step card idx: what the history keeps of it
Clicked(idx) ==
    [at |-> "clicked", idx |-> idx, running |-> demo_running, typing |-> is_typing,
     pending |-> Len(after_advance), tick |-> clock + 1,
     first |-> -2, after_first |-> -2, pressed |-> "no", ahead |-> 0, typed |-> -2, next |-> -2]

\* The history of the click after a trigger press was accepted: the advance
\* of the first press accepted since the click has ahead older advances
\* before it
ClickAfterPress ==
    IF click.at = "clicked" /\ click.running /\ click.tick = clock /\ click.pressed = "no"
    THEN [click EXCEPT !.pressed = "yes", !.ahead = Len(after_advance)]
    ELSE click

\* The history of the click after an advance ran: first is the index of the
\* step the first advance since the click typed, typed the index of the step
\* the advance of the first press accepted since the click typed (-1: none),
\* after_first and next the demo_step_idx they left.  An editor handler that
\* ran since the click ends the history.
ClickAfterAdvance ==
    LET t == IF AdvanceReturnsEarly THEN -1 ELSE demo_step_idx
        own == click.pressed = "yes" /\ click.ahead = 0
    IN  IF click.at # "clicked" \/ ~click.running THEN click
        ELSE IF click.tick # clock THEN NoClick
        ELSE [click EXCEPT !.first = IF click.first = -2 THEN t ELSE @,
                           !.after_first = IF click.first = -2 THEN demo_step_idx' ELSE @,
                           !.ahead = IF click.pressed = "yes" /\ @ > 0 THEN @ - 1 ELSE @,
                           !.pressed = IF own THEN "ran" ELSE @,
                           !.typed = IF own THEN t ELSE @,
                           !.next = IF own THEN demo_step_idx' ELSE @]

\* _on_step_click, lines 818-822, with the _select_step it calls
LiveStepClick ==
    \E idx \in 0..(NumSteps - 1) :
        /\ Alive
        /\ clock < MaxEdits
        /\ _select_step(idx)
        /\ demo_step_idx' = StepClickIdx(idx)
        /\ clock' = clock + 1
        /\ last_op' = [op |-> "_on_step_click", entry |-> ""]
        /\ click' = Clicked(idx)
        /\ UNCHANGED <<engine_vars, selected_script, demo_running, hotkey_key, listener,
                       listeners_running, after_advance, after_typed, key_dropped,
                       advance_skipped, listener_calls, speed_vars, delay_vars, key_vars,
                       advance_log>>

\* _toggle_demo, lines 965-969
LiveToggleDemo ==
    /\ Alive
    /\ IF demo_running THEN StopDemo
       ELSE /\ IF StartDemoRefuses
               THEN UNCHANGED <<demo_running, demo_step_idx, listener, listeners_running>>
               ELSE StartDemo
            /\ UNCHANGED <<is_typing, stop_flag, workers, last_call, disciplined, advance_skipped>>
    /\ click' = NoClick
    /\ UNCHANGED <<caps_lock, caller_args, fault_budget, scripts, selected_script, hotkey_key,
                   after_advance, after_typed, key_dropped, listener_calls, speed_vars,
                   storage_vars, delay_vars, key_vars, editor_vars, advance_log>>

\* _full_quit, lines 1096-1101 (and _on_close, lines 1112-1117)
_full_quit ==
    /\ StopDemo
    /\ UNCHANGED scripts
    /\ _save

Quit ==
    /\ Alive
    /\ _full_quit
    /\ last_op' = [op |-> "_full_quit", entry |-> ""]
    /\ UNCHANGED <<caps_lock, caller_args, fault_budget, selected_script, hotkey_key,
                   after_advance, after_typed, key_dropped, listener_calls, speed_vars,
                   delay_vars, key_vars, selected_step_idx, clock, live_vars>>

\* _on_global_key, lines 1037-1039, called by the running listener
LivePress ==
    \E key \in Keys :
        /\ Alive
        /\ key = hotkey_key => after_advance = <<>> /\ LiveWorkers = {}
        /\ listeners_running > 0
        /\ OnGlobalKey(key)
        /\ click' = IF OnGlobalKeyAccepts(key) THEN ClickAfterPress ELSE click
        /\ UNCHANGED <<listener_calls, speed_vars, storage_vars, delay_vars, key_vars,
                       editor_vars, advance_log>>

\* _type_next_step, lines 1041-1055, on the Step records of the editor
LiveAdvance ==
    /\ Alive
    /\ TypeNextStep(Fields(StepToType))
    /\ advance_log' = [found |-> AdvanceFinds, idx |-> demo_step_idx, steps |-> NumSteps,
                       read |-> IF AdvanceReturnsEarly THEN -1 ELSE demo_step_idx]
    /\ click' = ClickAfterAdvance
    /\ UNCHANGED <<listener_calls, speed_vars, storage_vars, delay_vars, key_vars, editor_vars>>

InitLive ==
    /\ InitEngineVars
    /\ InitAppVars
    /\ scripts = LiveScripts
    /\ caps_lock = FALSE
    /\ fault_budget = MaxAppFaults
    /\ caller_args = StepRequest(DemoStep(1))
    /\ disk = save(LiveScripts)
    /\ loaded = load(disk)
    /\ saved = <<>>

\* The user edits and runs the demo
NextLive ==
    \/ Alive /\ EditorSelectScript
    \/ LiveStepClick
    \/ Alive /\ DeleteStep
    \/ Alive /\ DeleteScript
    \/ LiveToggleDemo
    \/ LivePress
    \/ LiveAdvance
    \/ Alive /\ _on_step_typed
    \/ Alive /\ Worker

SpecLive == InitLive /\ [][NextLive]_vars

\* The user runs the demo, changes the trigger key and quits
NextLifecycle ==
    \/ Alive /\ EditorSelectScript
    \/ LiveToggleDemo
    \/ Alive /\ HotkeyChange
    \/ Quit
    \/ LivePress
    \/ LiveAdvance
    \/ Alive /\ _on_step_typed
    \/ Alive /\ Worker

SpecLifecycle == InitLive /\ [][NextLifecycle]_vars

---------------------------------------------------------------------------
(* Claims *)

\* C1: under a caller that invokes type_text only while is_typing is false,
\* at most one worker thread is live (started and not exited) in every
\* reachable state.
C1_OneLiveWorker == disciplined => Cardinality(LiveWorkers) <= 1

\* C2: the dispatch loop never has two emitter sessions active at a time,
\* whatever the interleaving of key presses, delayed _type_next_step
\* callbacks and worker steps.
C2_OneActiveSession == Cardinality(LiveWorkers) <= 1

\* The newest session types the given step
TypesStep(wk, step) ==
    /\ wk.text = step.text
    /\ wk.press_enter = step.press_enter
    /\ wk.delay_before = step.delay_before

\* A step in which the oldest scheduled _type_next_step callback runs
AdvanceRuns == after_advance # <<>> /\ after_advance' = Tail(after_advance)

\* The callback advances: the index grows by exactly 1 and exactly one session
\* starts, typing the step at the index before the increment.
Advances ==
    /\ demo_step_idx' = demo_step_idx + 1
    /\ Len(workers') = Len(workers) + 1
    /\ selected_script # 0
    /\ demo_step_idx < NumSteps
    /\ TypesStep(workers'[Len(workers')], scripts[selected_script].steps[demo_step_idx + 1])

\* C3 as stated: every trigger press observed while the demo is Armed with
\* demo_step_idx < number of steps advances demo_step_idx by exactly 1 and
\* starts exactly one session, typing the step at the pre-increment index.
C3_EveryArmedPressAdvances ==
    [][AdvanceRuns /\ Head(after_advance).in_range => Advances]_vars

\* C3 as amended: a trigger press observed while Armed schedules exactly one
\* advance and changes neither the index nor the sessions; the scheduled
\* advance, if the demo is still running on a selected script with
\* demo_step_idx < number of steps when it runs, advances demo_step_idx by
\* exactly 1 and starts exactly one session typing the step at the
\* pre-increment index, and otherwise changes neither.
C3_ArmedAdvance ==
    [][/\ Len(after_advance') > Len(after_advance) =>
            /\ demo_running /\ ~is_typing
            /\ Len(after_advance') = Len(after_advance) + 1
            /\ UNCHANGED <<demo_step_idx, workers>>
       /\ AdvanceRuns =>
            IF demo_running /\ selected_script # 0 /\ demo_step_idx < NumSteps
            THEN Advances
            ELSE UNCHANGED <<demo_step_idx, workers, is_typing>>]_vars

\* An armed press was followed by its advance: the first step is being typed
\* and the index points at the second
C3_Witness ==
    /\ demo_running
    /\ demo_step_idx = 1
    /\ Len(workers) = 1
    /\ TypesStep(workers[1], DemoStep(1))
    /\ workers[1].pc = "sleep0"
    /\ after_advance = <<>>

\* A step in which the listener observes a key press while is_typing is true
PressWhileTyping == (\E key \in Keys : _on_global_key(key)) /\ is_typing

\* What a dropped press leaves alone
DroppedPressFrame ==
    UNCHANGED <<after_advance, after_typed, demo_step_idx, demo_running,
                workers, is_typing, stop_flag>>

\* C4: a trigger press observed while is_typing is true starts no session and
\* leaves demo_step_idx unchanged, and it is not buffered: after the running
\* session has completed (here: without having been cancelled) no session
\* starts until a new trigger press is observed.
C4_NoSessionUntilNewPress ==
    [][/\ PressWhileTyping => DroppedPressFrame
       /\ key_dropped /\ LiveWorkers = {} /\ ~stop_flag =>
            Len(workers') = Len(workers)]_vars

\* The listener's own part: a press observed while is_typing is true schedules
\* nothing, an advance is scheduled only by a press observed while is_typing
\* is false, and a session starts only by consuming a scheduled advance.
PressWhileTypingIsDropped ==
    [][/\ PressWhileTyping => DroppedPressFrame
       /\ Len(after_advance') > Len(after_advance) => ~is_typing
       /\ Len(workers') > Len(workers) => AdvanceRuns]_vars

\* What a session that runs to completion injects: the Caps Lock pair if Caps
\* Lock was found on, every character of the text in order, then Enter
\* pressed and released if press_enter
TextEvents(text) == [k \in 1..Len(text) |-> TypeEv(text[k])]

CapsEvents(wk) == IF wk.caps_seen = "on" THEN <<CapsPress, CapsRelease>> ELSE <<>>

EnterEvents(wk) == IF wk.press_enter THEN <<EnterPress, EnterRelease>> ELSE <<>>

FullOutput(wk) == CapsEvents(wk) \o TextEvents(wk.text) \o EnterEvents(wk)

IsPrefix(a, b) == Len(a) <= Len(b) /\ a = SubSeq(b, 1, Len(a))

Finalizing(wk) == wk.pc \in {"finally", "exited"}

\* C5: a session with a non-empty text that is neither cancelled nor hit by a
\* failure emits exactly len(text) character events in input order, then one
\* Enter press+release iff press_enter, the Enter last; on_done fires after
\* the last event.
C5_CompleteOutput ==
    \A w \in Sessions :
        LET wk == workers[w] IN
        wk.text # <<>> /\ wk.stop_at = -1 /\ wk.failed = "none" =>
            /\ IsPrefix(wk.out, FullOutput(wk))
            /\ Finalizing(wk) =>
                 /\ wk.out = FullOutput(wk)
                 /\ Chars(wk.out) = TextEvents(wk.text)
                 /\ EnterPressed(wk.out) <=> wk.press_enter
            /\ wk.done_calls > 0 => wk.pc = "exited"

\* A session typed the longest text and Enter undisturbed and has exited
C5_Witness ==
    \E w \in Sessions :
        LET wk == workers[w] IN
        /\ Len(wk.text) = MaxLen
        /\ wk.press_enter
        /\ wk.stop_at = -1 /\ wk.failed = "none"
        /\ wk.pc = "exited" /\ wk.done_calls = 1
        /\ wk.out = FullOutput(wk)
        /\ Len(Chars(wk.out)) = MaxLen

\* A step in which worker w runs its finally clause
Finalizes(w) == workers[w].pc = "finally" /\ workers'[w].pc = "exited"

\* C6: on every exit path of a worker (normal completion, cancellation, an
\* exception from key injection, from on_char or from the initial sleep) the
\* finalization sets is_typing to false and invokes on_done, exactly once per
\* type_text call.
C6_FinallyAlwaysRuns ==
    /\ [](\A w \in Sessions :
            LET wk == workers[w] IN
            /\ wk.done_calls = (IF wk.pc = "exited" THEN 1 ELSE 0)
            /\ wk.failed # "none" => Finalizing(wk))
    /\ [][\A w \in Sessions :
            /\ Finalizes(w) => ~is_typing' /\ workers'[w].done_calls = 1
            /\ workers'[w].done_calls # workers[w].done_calls => Finalizes(w)]_vars

\* One session has exited after an exception and another after a cancellation
C6_Witness ==
    \E w1, w2 \in Sessions :
        /\ workers[w1].pc = "exited" /\ workers[w1].failed \in {"char", "on_char", "sleep"}
        /\ workers[w2].pc = "exited" /\ workers[w2].stop_at >= 0
        /\ workers[w2].failed = "none"
        /\ workers[w1].done_calls = 1 /\ workers[w2].done_calls = 1

\* C7: if stop() sets the signal after the Nth character of a session was
\* emitted and before the (N+1)th, N from 0 to len(text) (N = len(text): after
\* the last character, before the Enter), the session emits N or N+1
\* characters in total and never the Enter.
C7_CancelledSessionOutput ==
    \A w \in Sessions :
        LET wk == workers[w] IN
        wk.stop_at >= 0 =>
            /\ Len(Chars(wk.out)) <= wk.stop_at + 1
            /\ ~EnterPressed(wk.out)

\* C8: stop() sets the cancellation signal and sets is_typing to false on the
\* calling path without waiting for the worker, so both hold when stop()
\* has returned, wherever the workers are; stop() can be called in every
\* state, also when no session is running.
C8_StopIsImmediate ==
    /\ last_call = "stop" => stop_flag /\ ~is_typing
    /\ ENABLED CallStop

\* stop() has returned while a worker is between two characters
C8_Witness ==
    /\ last_call = "stop"
    /\ \E w \in Sessions :
        /\ workers[w].pc = "type"
        /\ workers[w].i = 1
        /\ workers[w].stop_at = 1

\* C9: once stop() has returned for a session, its worker finds the signal set
\* at its next per-character check, emits at most one further character and
\* no Enter, whatever calls follow, a new type_text included.
C9_StoppedWorkerSeesSignal ==
    \A w \in Sessions :
        LET wk == workers[w] IN
        wk.stop_at >= 0 =>
            /\ wk.pc \in {"loop", "enter_check"} => stop_flag
            /\ Len(Chars(wk.out)) <= wk.stop_at + 1
            /\ ~EnterPressed(wk.out)

\* C10: if emitting the k-th character or the Enter raises, the session emits
\* none of the remaining characters and (for a character) no Enter, is_typing
\* is set to false and on_done is still invoked exactly once.
C10_InjectionFailure ==
    /\ [](\A w \in Sessions :
            LET wk == workers[w] IN
            wk.failed \in {"char", "enter"} =>
                /\ Finalizing(wk)
                /\ wk.failed = "char" =>
                     /\ wk.i < Len(wk.text)
                     /\ Chars(wk.out) = TextEvents(SubSeq(wk.text, 1, wk.i))
                     /\ ~EnterPressed(wk.out)
                /\ wk.failed = "enter" =>
                     /\ \A k \in 1..Len(wk.out) : wk.out[k] # EnterRelease
                     /\ Len(Chars(wk.out)) <= Len(wk.text)
                /\ wk.pc = "exited" => wk.done_calls = 1)
    /\ [][\A w \in Sessions :
            workers[w].failed \in {"char", "enter"} /\ Finalizes(w) =>
                ~is_typing' /\ workers'[w].done_calls = workers[w].done_calls + 1]_vars

\* The second character of a text failed to inject: one character was typed,
\* no Enter, and the session has exited after on_done
C10_Witness ==
    \E w \in Sessions :
        LET wk == workers[w] IN
        /\ wk.failed = "char" /\ wk.i = 1 /\ Len(wk.text) = 2 /\ wk.press_enter
        /\ Len(Chars(wk.out)) = 1
        /\ wk.pc = "exited" /\ wk.done_calls = 1 /\ ~is_typing

\* A step in which the Start / Stop button starts, respectively stops, the demo
StartsDemo == ~demo_running /\ _toggle_demo

StopsDemo == demo_running /\ _toggle_demo

\* C11: starting a demo with a selected script of at least one step arms it:
\* demo_running true, demo_step_idx 0 and exactly one listener running;
\* starting with no selected script or with an empty step list leaves
\* demo_running false and the index unchanged and starts no listener.
C11_StartDemo ==
    [][StartsDemo =>
         IF selected_script # 0 /\ NumSteps > 0
         THEN /\ demo_running'
              /\ demo_step_idx' = 0
              /\ listener' /\ listeners_running' = 1
         ELSE /\ ~demo_running'
              /\ UNCHANGED <<demo_step_idx, listener, listeners_running>>]_vars

\* The demo has just been armed: running at index 0 with one listener,
\* nothing typed and nothing scheduled yet
C11_Witness ==
    /\ demo_running
    /\ demo_step_idx = 0
    /\ listener /\ listeners_running = 1
    /\ NumSteps > 0
    /\ workers = <<>>
    /\ after_advance = <<>>

\* C12: stopping the demo from Armed, Typing or Complete returns to Idle:
\* after _stop_demo demo_running is false, the listener is stopped, the
\* cancellation signal is set with is_typing false and demo_step_idx is 0;
\* this lasts while the demo is idle, and a later start re-arms from index 0.
C12_StopDemo ==
    /\ [][StopsDemo =>
            /\ ~demo_running'
            /\ ~listener' /\ listeners_running' = 0
            /\ stop_flag' /\ ~is_typing'
            /\ demo_step_idx' = 0]_vars
    /\ [](~demo_running =>
            /\ demo_step_idx = 0
            /\ ~listener /\ listeners_running = 0
            /\ ~is_typing
            /\ last_call = "stop" => stop_flag)
    /\ [][StartsDemo /\ demo_running' => demo_step_idx' = 0]_vars

\* The demo was stopped while a session was typing, after a step had been
\* typed: it is idle and the session's worker has not exited yet
C12_Witness ==
    /\ ~demo_running
    /\ last_call = "stop"
    /\ stop_flag /\ ~is_typing
    /\ demo_step_idx = 0
    /\ listeners_running = 0
    /\ \E w \in Sessions : Live(w) /\ workers[w].stop_at >= 0

\* C13: when demo_step_idx >= number of steps of the active script, the
\* advance is a no-op: it starts no session, leaves demo_step_idx unchanged,
\* and the demo stays active with its listener running.
C13_AdvancePastEnd ==
    [][AdvanceRuns /\ demo_running /\ selected_script # 0 /\ demo_step_idx >= NumSteps =>
         /\ UNCHANGED <<workers, is_typing, stop_flag, demo_step_idx>>
         /\ demo_running'
         /\ listener' /\ listeners_running' = 1]_vars

\* Every step of the script was typed and a further advance has run and
\* done nothing
C13_Witness ==
    /\ advance_skipped
    /\ demo_running
    /\ NumSteps = MaxSteps
    /\ demo_step_idx = NumSteps
    /\ Len(workers) = MaxSteps
    /\ listeners_running = 1

\* C15: _start_listener stops any existing listener before it creates the
\* new one, so that after any sequence of _start_listener, _stop_listener,
\* demo starts and stops and trigger-key changes at most one listener runs,
\* the one the application holds; _stop_listener without a listener changes
\* nothing.
C15_OneListener == listeners_running = (IF listener THEN 1 ELSE 0)

\* _stop_listener was called with no listener, then _start_listener twice in
\* a row: one listener runs
C15_Witness ==
    /\ listener_calls = <<"stop", "start", "start">>
    /\ listener
    /\ listeners_running = 1

\* C14: for a script of n steps, arming the demo and pressing the trigger key
\* n times, each press after the previous session completed, types every step
\* exactly once in list order (its characters, then Enter if press_enter; a
\* session hit by an injection failure stops short), no session starting
\* before the previous one has exited, and further presses start nothing.
C14_OrderedRun ==
    demo_running =>
        /\ Len(workers) = demo_step_idx
        /\ demo_step_idx <= NumSteps
        /\ \A w \in Sessions :
            LET wk == workers[w] IN
            /\ TypesStep(wk, scripts[selected_script].steps[w])
            /\ IsPrefix(wk.out, FullOutput(wk))
            /\ wk.pc = "exited" /\ wk.failed = "none" => wk.out = FullOutput(wk)
            /\ w < Len(workers) => wk.pc = "exited"

\* Two different steps were typed in list order, each completely, and a
\* further press of the trigger key has done nothing
C14_Witness ==
    /\ demo_running
    /\ NumSteps = MaxSteps
    /\ demo_step_idx = NumSteps
    /\ advance_skipped
    /\ \A w \in Sessions :
        /\ workers[w].pc = "exited"
        /\ workers[w].out = FullOutput(workers[w])
        /\ Chars(workers[w].out) = TextEvents(scripts[1].steps[w].text)
    /\ Len(workers) = MaxSteps
    /\ Len(workers[1].text) = MaxLen
    /\ workers[1].press_enter
    /\ workers[1].text # workers[MaxSteps].text

\* A file has the shape save writes: a list of records with id and name, whose
\* steps, if given, are a list of records with no other keys than a step's
\* and the legacy role
StepShaped(v) == v.t = "dict" /\ DOMAIN v.d \subseteq StepKeys \cup {"role"}

ScriptShaped(v) ==
    /\ v.t = "dict"
    /\ {"id", "name"} \subseteq DOMAIN v.d
    /\ "steps" \in DOMAIN v.d =>
         /\ v.d["steps"].t = "list"
         /\ \A k \in 1..Len(v.d["steps"].items) : StepShaped(v.d["steps"].items[k])

WellFormed(file) ==
    /\ file.kind = "json"
    /\ file.value.t = "list"
    /\ \A k \in 1..Len(file.value.items) : ScriptShaped(file.value.items[k])

\* C16: load never propagates an error for malformed persisted data: for a
\* file that is not valid JSON, or valid JSON whose records lack required keys
\* or do not have the script/step shape, load returns an empty collection.
C16_LoadNeverRaises ==
    /\ loaded.status # "raised"
    /\ loaded.status = "returned" /\ disk # Absent /\ ~WellFormed(disk) =>
         loaded.scripts = <<>>

\* What load returns for the legacy file
LegacyScripts ==
    << [id |-> JStr("s"), name |-> JStr("Demo"), description |-> JStr("d"),
        steps |-> StoredSteps, created_at |-> JStr("t0"), updated_at |-> JStr("t1")] >>

\* C17: load after save(scripts) returns the same scripts in the same order
\* with every field of every script and step equal, whatever the file held
\* before; a legacy role key on a step on disk is absent after load and does
\* not make load fail.
C17_RoundTrip ==
    /\ saved # <<>> /\ loaded.status # "none" => loaded = Returned(saved[1])
    /\ disk = LegacyFile /\ loaded.status # "none" => loaded = Returned(LegacyScripts)

\* A collection of two different scripts, the first with two steps, was
\* saved over another file and loaded back
C17_Witness ==
    /\ saved # <<>>
    /\ Len(saved[1]) = MaxScripts
    /\ Len(saved[1][1].steps) = 2
    /\ saved[1][1] # saved[1][MaxScripts]
    /\ loaded.status = "returned"
    /\ loaded.scripts = saved[1]

\* C18: set_speed(name) sets the base rate to the preset's value (Slow 0.065,
\* Normal 0.040, Fast 0.022, Very Fast 0.010) and to 0.022 for any other name;
\* set_speed_value(s) sets it to max(0.003, s); after any sequence of the two
\* calls the base rate is at least 0.003.
C18_SpeedSetters ==
    /\ base_delay >= 3000
    /\ speed_log # <<>> =>
         LET c == speed_log[Len(speed_log)] IN
         IF c.op = "set_speed"
         THEN base_delay = (CASE c.name = "Slow" -> 65000
                              [] c.name = "Normal" -> 40000
                              [] c.name = "Fast" -> 22000
                              [] c.name = "Very Fast" -> 10000
                              [] OTHER -> 22000)
         ELSE base_delay = (IF c.delay < 3000 THEN 3000 ELSE c.delay)

\* An unknown preset name was set, then a delay just below the floor
C18_Witness ==
    /\ Len(speed_log) = 2
    /\ speed_log[1] = [op |-> "set_speed", name |-> "Turbo"]
    /\ speed_log[2] = [op |-> "set_speed_value", delay |-> 2999]
    /\ base_delay = 3000

\* C19: type_text clears a pending cancellation signal and sets is_typing to
\* true on the calling path, before the worker runs, so a stop() issued before
\* the call does not cancel the new session; is_typing stays true from the call
\* until that session's finalization or a stop() (the caller invoking
\* type_text only while is_typing is false).
C19_TypingUntilDone ==
    /\ last_call = "type_text" => ~stop_flag
    /\ disciplined =>
         \A w \in Sessions :
             InTry(w) /\ workers[w].stop_at = -1 => is_typing

\* The worker has just emitted a character and not yet called on_char for it
AwaitsOnChar(w) == workers[w].pc = "on_char"

\* C20 as stated: after emitting a character, if the cancellation signal is
\* set the worker stops at once, without invoking on_char for that character;
\* otherwise on_char is invoked once per emitted character, in index order,
\* after its emission and before the next.
C20_NoOnCharAfterStop ==
    [][\A w \in Sessions :
         /\ AwaitsOnChar(w) /\ stop_flag =>
              workers'[w].on_char_calls = workers[w].on_char_calls
         /\ workers'[w].on_char_calls # workers[w].on_char_calls =>
              /\ AwaitsOnChar(w)
              /\ workers'[w].on_char_calls = workers[w].on_char_calls + 1]_vars

\* C20 as amended: the signal is checked before each character is emitted, not
\* after: on_char is invoked exactly once for every emitted character, also
\* when the signal was set after its emission, in index order, after that
\* character's emission and before the next one's; a worker that finds the
\* signal set at its check emits no further character and invokes no further
\* on_char.
C20_OnCharPerCharacter ==
    /\ [](\A w \in Sessions :
            LET wk == workers[w] IN
            /\ ~wk.on_char => wk.on_char_calls = 0
            /\ wk.on_char /\ wk.failed # "char" =>
                 wk.on_char_calls = NChars(w) - (IF AwaitsOnChar(w) THEN 1 ELSE 0)
            /\ wk.on_char /\ wk.failed \notin {"char", "on_char"} =>
                 wk.on_char_calls = (IF wk.pc \in {"sleep0", "caps"} THEN 0 ELSE wk.i))
    /\ [][\A w \in Sessions :
            /\ workers'[w].on_char_calls # workers[w].on_char_calls =>
                 /\ AwaitsOnChar(w)
                 /\ workers'[w].on_char_calls = workers[w].on_char_calls + 1
            /\ NChars(w)' # NChars(w) =>
                 /\ workers[w].pc = "type"
                 /\ NChars(w)' = NChars(w) + 1
            /\ workers[w].pc = "loop" /\ stop_flag =>
                 workers'[w].pc \notin {"type", "on_char"}
            /\ workers[w].pc \in {"enter_check", "enter_press", "finally", "exited"} =>
                 workers'[w].pc \notin {"type", "on_char"}]_vars

\* stop() returned between the emission of the first character and its
\* on_char call; on_char was still called for it, and the worker exited
\* without a second character
C20_Witness ==
    \E w \in Sessions :
        LET wk == workers[w] IN
        /\ wk.on_char
        /\ wk.stop_before_on_char /\ wk.stop_at = 1
        /\ wk.on_char_calls = 1
        /\ NChars(w) = 1
        /\ wk.pc = "exited"

\* C21: every inter-keystroke delay a worker sleeps is at least 0.003 s
\* (3000 microseconds), for every base rate the two setters can leave, every
\* jitter of the two ranges and with humanize on or off; with humanize off
\* it is the base rate, with humanize on the base rate plus the jitter
\* unless that is below the floor.
C21_DelayFloor ==
    /\ base_delay >= 3000
    /\ slept.slept =>
         /\ slept.delay >= 3000
         /\ ~slept.humanize => slept.delay = slept.base
         /\ slept.humanize /\ slept.base + slept.jitter >= 3000 =>
              slept.delay = slept.base + slept.jitter

\* With the lowest base rate and the most negative jitter the sum is below
\* zero and the floor was slept
C21_Witness ==
    /\ slept.slept
    /\ slept.humanize
    /\ slept.base = 3000
    /\ slept.jitter = -8000
    /\ slept.char \notin PauseChars
    /\ slept.delay = 3000

\* What a key event that does not trigger leaves alone
IgnoredKeyFrame ==
    UNCHANGED <<after_advance, after_typed, demo_step_idx, demo_running, hotkey_key,
                workers, is_typing, stop_flag, advance_key>>

\* C22: a key-press event changes state only when the key is the currently
\* configured trigger key, demo_running is true and is_typing is false; then
\* it schedules one advance and changes neither demo_step_idx, is_typing nor
\* the sessions.  Any other key, and the trigger key while no demo is active
\* or while is_typing is true, schedules nothing and leaves them unchanged.
\* An advance is scheduled only by a press of the key that is the trigger key
\* at that moment, so after a change of the trigger key only the new one.
C22_KeyEventGuard ==
    [][/\ \A key \in Keys :
            OnGlobalKey(key) =>
                IF key = hotkey_key /\ demo_running /\ ~is_typing
                THEN /\ Len(after_advance') = Len(after_advance) + 1
                     /\ UNCHANGED <<demo_step_idx, demo_running, workers, is_typing, stop_flag>>
                ELSE IgnoredKeyFrame
       /\ Len(after_advance') > Len(after_advance) =>
            /\ demo_running /\ ~is_typing
            /\ advance_key' = hotkey_key
            /\ OnGlobalKey(hotkey_key)]_vars

\* The trigger key was changed to F3; after the first step was typed a press
\* of F3 has scheduled the next advance
C22_Witness ==
    /\ demo_running
    /\ hotkey_key = "F3"
    /\ advance_key = "F3"
    /\ Len(after_advance) = 1
    /\ demo_step_idx = 1
    /\ Len(workers) = 1
    /\ workers[1].pc = "exited"

\* The steps of the three kinds of thread: the Tk main loop runs the widget
\* commands and the after callbacks, the listener's thread runs
\* _on_global_key, a worker's thread runs _worker
UIStep ==
    \/ SelectScript
    \/ ToggleDemo
    \/ StepClick
    \/ HotkeyChange
    \/ _type_next_step
    \/ _on_step_typed

ListenerStep == KeyPress

WorkerThreadStep == Worker

\* C23: demo_running and demo_step_idx are written only by steps of the UI
\* thread, never by a step of the listener's thread or of a worker's thread.
\* The listener's thread posts the advance to the UI's pending callbacks and
\* a worker's thread posts the completion, one callback per step, and that
\* step writes no run state.
C23_RunStateOnUIThread ==
    [][/\ demo_running' # demo_running \/ demo_step_idx' # demo_step_idx =>
            UIStep /\ ~ListenerStep /\ ~WorkerThreadStep
       /\ Len(after_advance') > Len(after_advance) =>
            /\ ListenerStep
            /\ Len(after_advance') = Len(after_advance) + 1
            /\ UNCHANGED <<demo_running, demo_step_idx, selected_script, scripts, after_typed>>
       /\ after_typed' > after_typed =>
            /\ WorkerThreadStep
            /\ \E w \in Sessions : Finalizes(w)
            /\ after_typed' = after_typed + 1
            /\ UNCHANGED <<demo_running, demo_step_idx, selected_script, scripts, after_advance>>]_vars

\* The first step was typed: its worker has posted the completion and the
\* listener has posted the next advance, both still pending, and the index
\* is where the UI thread's advance left it
C23_Witness ==
    /\ demo_running
    /\ demo_step_idx = 1
    /\ Len(workers) = 1
    /\ workers[1].pc = "exited"
    /\ after_typed = 1
    /\ Len(after_advance) = 1

\* A step in which a pending _on_step_typed callback runs
CompletionRuns == after_typed' = after_typed - 1

\* C24: in the cycle Armed, Typing, Armed the index is incremented before the
\* session is started: when type_text is called the index is already one past
\* the index of the step being typed, and the call itself leaves it alone;
\* the increment starts no session.  The completion callback _on_step_typed
\* leaves demo_step_idx and demo_running unchanged.
C24_IncrementBeforeSession ==
    /\ [](advance_pc # NotAdvancing =>
            /\ demo_step_idx = advance_pc.idx + 1
            /\ demo_running)
    /\ [][/\ Len(workers') > Len(workers) =>
               /\ advance_pc # NotAdvancing
               /\ demo_step_idx = advance_pc.idx + 1
               /\ UNCHANGED <<demo_step_idx, demo_running>>
               /\ TypesStep(workers'[Len(workers')],
                            scripts[selected_script].steps[demo_step_idx])
          /\ advance_pc = NotAdvancing /\ advance_pc' # NotAdvancing =>
               /\ demo_step_idx' = demo_step_idx + 1
               /\ UNCHANGED <<workers, is_typing>>
          /\ CompletionRuns =>
               UNCHANGED <<demo_step_idx, demo_running, workers, is_typing>>]_vars

\* One cycle is over: the first step was typed, its completion callback has
\* run, and the demo is armed again at index 1
C24_Witness ==
    /\ demo_running
    /\ demo_step_idx = 1
    /\ Len(workers) = 1
    /\ workers[1].pc = "exited"
    /\ workers[1].done_calls = 1
    /\ after_typed = 0
    /\ after_advance = <<>>
    /\ advance_pc = NotAdvancing
    /\ ~is_typing

\* C25: when every worker thread keeps being scheduled, every session started
\* by type_text terminates: its worker exits after on_done has fired once,
\* its finalization sets is_typing to false, and whenever is_typing is true
\* it becomes false again without any further call.
C25_SessionsTerminate ==
    /\ \A w \in 1..MaxSessions :
          (w \in Sessions) ~>
              (w \in Sessions /\ workers[w].pc = "exited" /\ workers[w].done_calls = 1)
    /\ is_typing ~> ~is_typing
    /\ [][\A w \in Sessions : Finalizes(w) => ~is_typing']_vars

\* Two sessions that overlapped have both typed their whole text and exited
\* on their own
C25_Witness ==
    /\ Len(workers) = MaxSessions
    /\ ~is_typing
    /\ last_call = "type_text"
    /\ \A w \in Sessions :
          /\ workers[w].pc = "exited"
          /\ workers[w].done_calls = 1
          /\ workers[w].stop_at = -1 /\ workers[w].failed = "none"
          /\ Len(workers[w].text) = MaxLen
          /\ NChars(w) = MaxLen

\* The fields of a script and of its steps, the modification time aside
EditableFields(sc) == [sc EXCEPT !.updated_at = JNull]

\* A step in which the selected script or one of its steps changed
ScriptEdited ==
    /\ selected_script # 0
    /\ selected_script' = selected_script
    /\ EditableFields(scripts'[selected_script]) # EditableFields(scripts[selected_script])

\* C26: every editor operation that changes a field of the selected script or
\* of one of its steps (name, description, the step list, a step's text,
\* press_enter or delay_before) sets the script's updated_at to the time of
\* the operation.
C26_TouchOnEveryEdit ==
    [][ScriptEdited => scripts'[selected_script].updated_at = JStr(clock')]_vars

\* The handlers that call touch do refresh updated_at when they change a field
TouchingEditsRefresh ==
    [][ScriptEdited /\ last_op'.op \notin {"_on_enter_toggle", "_on_delay_change"} =>
         scripts'[selected_script].updated_at = JStr(clock')]_vars

\* Every step of every script has a delay of at least 0
AllDelaysNonNegative ==
    \A k \in 1..Len(scripts) : \A j \in 1..Len(scripts[k].steps) :
        LET delay == scripts[k].steps[j].delay_before IN
        delay.t = "num" /\ delay.n >= 0

\* A step in which _on_delay_change ran with the given entries
DelayEntered(entries) == last_op'.op = "_on_delay_change" /\ last_op'.entry \in entries

\* C27: after any sequence of editor operations every step has
\* delay_before >= 0: a delay entry that is not a valid non-negative number
\* is rejected and the step keeps its prior delay_before.
C27_DelayNeverNegative ==
    /\ []AllDelaysNonNegative
    /\ [][DelayEntered(DelayEntries \ {"0", "0.3", "0.5"}) => scripts' = scripts]_vars

\* An entry that is not a number is rejected: the scripts stay as they are
NonNumericDelayRejected ==
    [][DelayEntered({"abc", ""}) => scripts' = scripts]_vars

\* The Caps Lock events among the events a worker injected
CapsPart(out) == SelectSeq(out, LAMBDA e : e[2] = "caps_lock")

\* C28: Caps Lock is normalized at most once per session, after the
\* delay_before sleep and before the first character: a worker reads the
\* Caps Lock state once, with nothing injected yet, and injects the Caps Lock
\* press+release pair, as its first two events, iff it detected Caps Lock as
\* active at that moment (a press or release that raises cuts the pair short
\* and ends the session).
C28_CapsLockOnce ==
    /\ [](\A w \in Sessions :
            LET wk == workers[w] IN
            /\ wk.caps_seen = "unread" <=> wk.pc \in {"sleep0", "caps"} \/ wk.failed = "sleep"
            /\ wk.caps_seen = "unread" => wk.out = <<>>
            /\ wk.caps_seen = "off" => CapsPart(wk.out) = <<>>
            /\ wk.caps_seen = "on" /\ wk.failed # "caps" =>
                 /\ CapsPart(wk.out) = <<CapsPress, CapsRelease>>
                 /\ SubSeq(wk.out, 1, 2) = <<CapsPress, CapsRelease>>
            /\ wk.failed = "caps" =>
                 /\ wk.caps_seen = "on"
                 /\ wk.out \in {<<>>, <<CapsPress>>})
    /\ [][\A w \in Sessions :
            /\ workers'[w].caps_seen # workers[w].caps_seen =>
                 /\ workers[w].pc = "caps"
                 /\ workers[w].caps_seen = "unread"
                 /\ workers'[w].caps_seen = "on" => caps_lock
            /\ CapsPart(workers'[w].out) # CapsPart(workers[w].out) =>
                 /\ workers[w].pc = "caps"
                 /\ workers[w].out = <<>>]_vars

\* A session found Caps Lock on, turned it off with one pair and then typed
\* its whole text and Enter
C28_Witness ==
    /\ ~caps_lock
    /\ \E w \in Sessions :
          LET wk == workers[w] IN
          /\ wk.caps_seen = "on"
          /\ wk.pc = "exited"
          /\ Len(wk.text) = MaxLen
          /\ wk.press_enter
          /\ wk.out = <<CapsPress, CapsRelease>> \o TextEvents(wk.text) \o <<EnterPress, EnterRelease>>

\* C29: while the worker of a session that stop() has not cancelled is inside
\* its typing routine, is_typing is true (the caller invoking type_text only
\* while is_typing is false); in particular the finalization of an older,
\* stopped worker does not set is_typing to false while a newer session,
\* started after the stop, is still running.
C29_LiveSessionIsTyping ==
    /\ [](disciplined =>
            \A w \in Sessions : InTry(w) /\ workers[w].stop_at = -1 => is_typing)
    /\ [][disciplined =>
            \A w, v \in Sessions :
                /\ Finalizes(w) /\ workers[w].stop_at >= 0
                /\ w < v /\ InTry(v) /\ workers[v].stop_at = -1
                => is_typing']_vars

\* C30: a session that stop() reached before it had emitted its first
\* character injects no key event afterwards: no character, no Enter and no
\* Caps Lock press or release.
C30_NothingAfterEarlyStop ==
    \A w \in Sessions :
        LET wk == workers[w] IN
        wk.stop_at = 0 => Len(wk.out) = wk.stop_len

\* a == b on two values json carries: nan is not equal to nan
PyEqual(a, b) == a = b /\ a.t # "nan"

\* Step.__eq__ and Script.__eq__: the dataclasses compare field by field
StepsEqual(a, b) ==
    /\ PyEqual(a.id, b.id) /\ PyEqual(a.text, b.text)
    /\ PyEqual(a.press_enter, b.press_enter) /\ PyEqual(a.delay_before, b.delay_before)

ScriptsEqual(a, b) ==
    /\ PyEqual(a.id, b.id) /\ PyEqual(a.name, b.name) /\ PyEqual(a.description, b.description)
    /\ PyEqual(a.created_at, b.created_at) /\ PyEqual(a.updated_at, b.updated_at)
    /\ Len(a.steps) = Len(b.steps)
    /\ \A j \in 1..Len(a.steps) : StepsEqual(a.steps[j], b.steps[j])

\* Storage.load() now would return scripts equal to self.scripts
PersistedEqualsMemory ==
    LET now == load(disk) IN
    /\ now.status = "returned"
    /\ Len(now.scripts) = Len(scripts)
    /\ \A k \in 1..Len(scripts) : ScriptsEqual(now.scripts[k], scripts[k])

\* The handlers that change the script collection
CollectionEditors ==
    {"_new_script", "_delete_script", "_import_script", "_on_name_change", "_on_desc_change",
     "_add_step", "_duplicate_step", "_delete_step", "_move_step_up", "_move_step_down",
     "_on_step_text_change", "_on_enter_toggle", "_on_delay_change"}

\* Some step has the delay nan
SomeDelayIsNaN ==
    \E k \in 1..Len(scripts) : \E j \in 1..Len(scripts[k].steps) :
        scripts[k].steps[j].delay_before = JNaN

\* C35: after every completed editor operation that changes the script
\* collection (new, delete or import script, rename, description, add,
\* duplicate, delete or move step, edit of a step's text, press_enter or
\* delay_before) the persisted file equals the collection in memory:
\* Storage.load() at that point would return scripts equal field by field
\* to self.scripts.
C35_PersistedEqualsMemory ==
    last_op.op \in CollectionEditors => PersistedEqualsMemory

\* While every delay is a number, the file does hold the collection
NumbersPersist == SomeDelayIsNaN \/ PersistedEqualsMemory

\* The file is the collection as save writes it, after every handler
FileIsSavedCollection == disk = save(scripts)

\* C32: at UI-quiescent states (between UI actions) a listener is running if
\* and only if demo_running is true, after any sequence of start demo, stop
\* demo, toggle demo, trigger-key change and quit.
C32_ListenerIffRunning ==
    /\ listener = demo_running
    /\ listeners_running = (IF demo_running THEN 1 ELSE 0)

\* The trigger key was changed, a session was stopped while it was live and
\* the application has quit: no listener is left
C32_Witness ==
    /\ last_op.op = "_full_quit"
    /\ hotkey_key # "F2"
    /\ ~demo_running /\ ~listener /\ listeners_running = 0
    /\ \E w \in Sessions : Live(w) /\ workers[w].stop_at >= 0

\* C31: an advance action that was scheduled by a trigger press but runs
\* after the demo was stopped starts no emitter session and leaves
\* demo_step_idx at 0 and demo_running false.
C31_StaleAdvanceIsNoOp ==
    [][AdvanceRuns /\ ~demo_running =>
         /\ UNCHANGED <<workers, is_typing, stop_flag>>
         /\ demo_step_idx = 0 /\ demo_step_idx' = 0
         /\ ~demo_running']_vars

\* The last advance ran on a selected script after the demo was stopped,
\* and a step had been typed before the stop
C31_Witness ==
    /\ advance_log.found = "stopped"
    /\ advance_log.steps > 0
    /\ ~demo_running /\ demo_step_idx = 0
    /\ after_advance = <<>>
    /\ Len(workers) = 1 /\ ~is_typing

\* C33: the advance action never reads a step outside the current step
\* list, even when steps are deleted, another script is selected or the
\* selected script is deleted while the demo is running: with no selected
\* script or demo_step_idx >= len(steps) it does nothing, otherwise (the
\* demo running) it types steps[demo_step_idx] of the currently selected
\* script.
C33_AdvanceReadsInRange ==
    /\ [](advance_log.found # "none" /\ advance_log.read # -1 =>
             0 <= advance_log.read /\ advance_log.read < advance_log.steps)
    /\ [][AdvanceRuns =>
            IF selected_script = 0 \/ demo_step_idx >= NumSteps
            THEN UNCHANGED <<workers, is_typing, stop_flag, demo_step_idx>>
            ELSE demo_running =>
                   /\ Len(workers') = Len(workers) + 1
                   /\ TypesStep(workers'[Len(workers')],
                                Fields(scripts'[selected_script'].steps[demo_step_idx + 1]))
                   /\ demo_step_idx' = demo_step_idx + 1]_vars

\* A step of the running demo's script was deleted, and the advance that ran
\* next found demo_step_idx past the end of the shorter list
C33_Witness ==
    /\ advance_log.found = "past_end"
    /\ advance_log.steps = MaxSteps - 1
    /\ advance_log.idx >= advance_log.steps
    /\ demo_running /\ selected_script # 0
    /\ Len(scripts[selected_script].steps) = MaxSteps - 1

\* A step in which _on_step_click ran
ClickStep == last_op'.op = "_on_step_click" /\ clock' = clock + 1

\* What the click does to the runner: demo_step_idx becomes idx if a demo is
\* running and stays as it was otherwise
ClickSetsIdx ==
    ClickStep => demo_step_idx' = (IF demo_running THEN click'.idx ELSE demo_step_idx)

====
